---- MODULE Spec2Model ----
(***************************************************************************)
(* A model of four parts of prisma-engines:                                *)
(*   - the SQL step applier (sql_database_step_applier.rs): apply_step,    *)
(*     render_script, apply_script over a connection shell;                *)
(*   - the connection shells (io_shell.rs, sql-schema-describer-js):       *)
(*     the direct Quaint shell and the bridged IoTask shell;               *)
(*   - the SQLite schema describer (sqlite.rs): describe;                  *)
(*   - JSON-RPC over standard IO (json-rpc-stdio): Client::call and the    *)
(*     loop of run_with_io.                                                *)
(* Text is modelled as a sequence of one-character strings, so that        *)
(* rendering a script and splitting it again are computed, not assumed.    *)
(***************************************************************************)
EXTENDS Integers, Sequences, FiniteSets, TLC

VARIABLES
    \* ---- step applier ----
    steps,        \* database_migration.steps: Seq of [description, statements]
    diagnostics,  \* DestructiveChangeDiagnostics: [warnings, unexecutable_migrations]
    call,         \* the applier call under way or last returned: [op, index, script]
    queue,        \* what the call's loop has still to send (the iterator's rest)
    log,          \* raw_cmd calls made on the connection by this call: Seq of [cmd, status]
    result,       \* the call's return value, "pending" while it runs
    rendered,     \* what render_script (valid, text) or render_steps_pretty (pretty) returned
    \* ---- connection shells ----
    conn,         \* the connection's IoShell: "Quaint" | "IoTask" | "Dropped" (an IoTask, dropped)
    quaint,       \* the last call on the Quaint shell: [op, db, result]
    mutex,        \* IoTask.inner: the caller holding the guard, 0 when free
    callers,      \* per caller of IoTask::raw_cmd: [pc, id]
    returned,     \* the raw_cmd/query call that ended last: [caller, id, got, result]
    requests,     \* the request channel (sender -> receiver), Seq of [id, cmd]
    responses,    \* the response channel (response_sender -> response_receiver)
    worker,       \* the task spawned by IoTask::spawn: [pc, msg, dropped]; pc is "next",
                  \* "host", "send", "ended" (loop left), "dead" or "send_failed" (panics)
    host_inflight,\* commands handed to the host shell and not yet answered
    host_outcome, \* what the database did with the answered commands of calls still running
    ncalls,       \* raw_cmd calls started so far
    \* ---- SQLite schema describer ----
    catalog,          \* the database's catalog: [names, tables, views]
    describe_pc,      \* where describe is: [stage, table, index]
    describe_names,   \* the table names describe iterates over
    describe_tables,  \* `tables` of describe: the tables pushed so far
    describe_cur,     \* the table get_table is assembling
    describe_queries, \* the queries describe has issued on the connection
    describe_result,  \* what describe returned, "pending" while it runs
    \* ---- default value of a String-family column ----
    default_cell,     \* the dflt_value cell of the column's row: [is_some, text]
    default_value,    \* the column's default as get_columns computes it
    \* ---- JSON-RPC over standard IO ----
    rpc_loop,         \* run_with_io: [pc, value]; pc is "running", "returned" or "panicked"
    rpc_stdin,        \* what the input has come to: "open", "eof" or "error"
    rpc_lines,        \* lines read from the input so far
    rpc_in_flight,    \* in_flight: the set of entries [id, chan], one per key id
    rpc_channel,      \* request_sender -> request_receiver: Seq of [id, chan]
    rpc_clients,      \* a Client handle (a request_sender) is still alive
    rpc_calls,        \* per caller of Client::call: [pc, id, responses]
    rpc_counter,      \* REQUEST_ID_COUNTER
    rpc_output        \* the line written last to the output: [kind, id]

applierVars == <<steps, diagnostics, call, queue, log, result, rendered>>

shellVars == <<conn, quaint, mutex, callers, returned, requests, responses, worker,
               host_inflight, host_outcome, ncalls>>

describeVars == <<catalog, describe_pc, describe_names, describe_tables,
                  describe_cur, describe_queries, describe_result>>

defaultVars == <<default_cell, default_value>>

rpcVars == <<rpc_loop, rpc_stdin, rpc_lines, rpc_in_flight, rpc_channel, rpc_clients,
             rpc_calls, rpc_counter, rpc_output>>

vars == <<applierVars, shellVars, describeVars, defaultVars, rpcVars>>

(***************************************************************************)
(* Bounds of the model.                                                    *)
(***************************************************************************)
MaxSteps == 2
\* Concurrent callers of the bridged shell, and raw_cmd calls they start in all.
NumCallers == 2
MaxCalls == 3
\* Concurrent callers of Client::call, the calls they start in all, and the
\* lines the loop reads from its input.
NumRpcCallers == 2
MaxRpcCalls == 2
MaxLines == 2

(***************************************************************************)
(* The parts of the state a specification does not exercise stay at rest.  *)
(***************************************************************************)
NoMsg == [id |-> 0, cmd |-> "-"]
NoCall == [caller |-> 0, id |-> 0, got |-> 0, result |-> "none", db |-> "unknown"]
Callers == 1..NumCallers

ShellAtRest ==
    /\ quaint = [op |-> "none", db |-> "none",
                 result |-> [tag |-> "none", message |-> "-", error_code |-> "-"]]
    /\ mutex = 0
    /\ callers = [c \in Callers |-> [pc |-> "idle", id |-> 0]]
    /\ returned = NoCall
    /\ requests = <<>>
    /\ responses = <<>>
    /\ worker = [pc |-> "next", msg |-> NoMsg, dropped |-> FALSE]
    /\ host_inflight = {}
    /\ host_outcome = {}
    /\ ncalls = 0

NoTable == [name |-> "-", columns |-> <<>>, indices |-> <<>>,
            primary_key |-> [is_some |-> FALSE, columns |-> <<>>],
            foreign_keys |-> <<>>]

DescriberAtRest ==
    /\ catalog = [names |-> <<>>, tables |-> <<>>, views |-> <<>>]
    /\ describe_pc = [stage |-> "idle", table |-> 0, index |-> 0]
    /\ describe_names = <<>>
    /\ describe_tables = <<>>
    /\ describe_cur = NoTable
    /\ describe_queries = <<>>
    /\ describe_result = [tag |-> "none", value |-> "-"]

DefaultAtRest ==
    /\ default_cell = [is_some |-> FALSE, text |-> <<>>]
    /\ default_value = [tag |-> "none", value |-> "-"]

RpcCallers == 1..NumRpcCallers

RpcAtRest ==
    /\ rpc_loop = [pc |-> "running", value |-> "-"]
    /\ rpc_stdin = "open"
    /\ rpc_lines = 0
    /\ rpc_in_flight = {}
    /\ rpc_channel = <<>>
    /\ rpc_clients = TRUE
    /\ rpc_calls = [c \in RpcCallers |-> [pc |-> "idle", id |-> -1, responses |-> <<>>]]
    /\ rpc_counter = 0
    /\ rpc_output = [kind |-> "none", id |-> -1]

ApplierAtRest ==
    /\ steps = <<>>
    /\ diagnostics = [warnings |-> <<>>, unexecutable_migrations |-> <<>>]
    /\ call = [op |-> "none", index |-> 0, script |-> <<>>]
    /\ queue = <<>>
    /\ log = <<>>
    /\ result = [tag |-> "none", value |-> "-"]
    /\ rendered = [valid |-> FALSE, text |-> <<>>, pretty |-> <<>>]

(***************************************************************************)
(* Text helpers.                                                           *)
(***************************************************************************)
NEWLINE == "\n"

RECURSIVE Concat(_)
\* String::push_str over a list of pieces.
Concat(pieces) ==
    IF pieces = <<>> THEN <<>> ELSE Head(pieces) \o Concat(Tail(pieces))

\* The k-th smallest member of a set of integers.
NthSmallest(S, k) == CHOOSE i \in S : Cardinality({ j \in S : j < i }) = k - 1

\* str::lines(): split at "\n", dropping the "\n" and a "\r" right before it;
\* a last line that has no line ending is a line too, an empty rest is not.
Lines(text) ==
    LET nl == { i \in 1..Len(text) : text[i] = NEWLINE }
        n == Cardinality(nl)
        start(k) == IF k = 1 THEN 1 ELSE NthSmallest(nl, k - 1) + 1
        terminated(k) ==
            LET raw == SubSeq(text, start(k), NthSmallest(nl, k) - 1)
            IN  IF raw # <<>> /\ raw[Len(raw)] = "\r"
                THEN SubSeq(raw, 1, Len(raw) - 1)
                ELSE raw
        count == IF start(n + 1) <= Len(text) THEN n + 1 ELSE n
    IN  [k \in 1..count |->
            IF k <= n THEN terminated(k) ELSE SubSeq(text, start(k), Len(text))]

StepMarkerPrefix == <<"-", "-", " ", "[", "S", "t", "e", "p", ":", " ">>

\* STEP_SEPARATOR_RE = ^-- \[Step: (.*)\]$ matched against one line.
StepSeparatorMatches(line) ==
    /\ Len(line) >= Len(StepMarkerPrefix) + 1
    /\ SubSeq(line, 1, Len(StepMarkerPrefix)) = StepMarkerPrefix
    /\ line[Len(line)] = "]"

\* The regex's capture group 1.
StepSeparatorCapture(line) ==
    SubSeq(line, Len(StepMarkerPrefix) + 1, Len(line) - 1)

(***************************************************************************)
(* The inputs: steps as the renderer renders them, and diagnostics.        *)
(***************************************************************************)
CreateTableDesc == <<"C", "r", "e", "a", "t", "e", "T", "a", "b", "l", "e">>
AlterTableDesc  == <<"A", "l", "t", "e", "r", "T", "a", "b", "l", "e">>

StmtA == <<"A">>
StmtB == <<"B">>
\* A statement rendered over two lines, as CREATE TABLE statements are.
StmtTwoLines == <<"C", "(", NEWLINE, ")">>
\* A statement holding a string literal that spans lines, one of which reads
\* like a step marker.
StmtMarkerLine ==
    <<"D", "'", NEWLINE>> \o StepMarkerPrefix \o <<"X", "]", NEWLINE, "'">>

\* CreateTable renders to exactly one statement (vec![...]); AlterTable to
\* whatever the flavour returns, an empty list included.
StepPool ==
    { [description |-> CreateTableDesc, statements |-> <<StmtA>>],
      [description |-> CreateTableDesc, statements |-> <<StmtTwoLines>>],
      [description |-> CreateTableDesc, statements |-> <<StmtMarkerLine>>],
      [description |-> AlterTableDesc,  statements |-> <<>>],
      [description |-> AlterTableDesc,  statements |-> <<StmtA, StmtB>>],
      [description |-> AlterTableDesc,  statements |-> << <<>> >>] }

WarningW == <<"w">>
UnexecutableU == <<"u">>

DiagnosticsPool ==
    { [warnings |-> <<>>, unexecutable_migrations |-> <<>>],
      [warnings |-> <<WarningW>>, unexecutable_migrations |-> <<>>],
      [warnings |-> <<WarningW>>, unexecutable_migrations |-> <<UnexecutableU>>] }

RECURSIVE SeqsUpTo(_, _)
\* All sequences over S of length at most n.
SeqsUpTo(S, n) ==
    IF n = 0 THEN { <<>> }
    ELSE LET shorter == SeqsUpTo(S, n - 1)
         IN  shorter \cup { Append(s, x) : s \in shorter, x \in S }

(***************************************************************************)
(* render_raw_sql, render_script.                                          *)
(***************************************************************************)
\* The statements the flavour renders for one step.
render_raw_sql(step) == step.statements

RECURSIVE PushStatements(_)
PushStatements(statements) ==
    IF statements = <<>> THEN <<>>
    ELSE Head(statements) \o <<";", NEWLINE>> \o PushStatements(Tail(statements))

RECURSIVE PushDescriptions(_)
PushDescriptions(entries) ==
    IF entries = <<>> THEN <<>>
    ELSE <<" ", " ", "-", " ">> \o Head(entries) \o <<NEWLINE>>
         \o PushDescriptions(Tail(entries))

\* Mutant: the block lists the warnings only.
WarningsBlock_WarningsOnly(diag) ==
    IF diag.warnings # <<>> \/ diag.unexecutable_migrations # <<>>
    THEN <<"/", "*", NEWLINE, " ", " ", "W", "a", "r", "n", "i", "n", "g", "s", ":",
           NEWLINE, NEWLINE>>
         \o PushDescriptions(diag.warnings)
         \o <<NEWLINE, "*", "/", NEWLINE>>
    ELSE <<>>

WarningsBlock(diag) ==
    IF diag.warnings # <<>> \/ diag.unexecutable_migrations # <<>>
    THEN <<"/", "*", NEWLINE, " ", " ", "W", "a", "r", "n", "i", "n", "g", "s", ":",
           NEWLINE, NEWLINE>>
         \o PushDescriptions(diag.warnings)
         \o PushDescriptions(diag.unexecutable_migrations)
         \o <<NEWLINE, "*", "/", NEWLINE>>
    ELSE <<>>

RECURSIVE PushSteps_MarkEmpty(_)
\* Mutant: a marker line for every step, also one that renders to nothing.
PushSteps_MarkEmpty(ss) ==
    IF ss = <<>> THEN <<>>
    ELSE StepMarkerPrefix \o Head(ss).description \o <<"]", NEWLINE>>
         \o PushStatements(render_raw_sql(Head(ss)))
         \o PushSteps_MarkEmpty(Tail(ss))

RECURSIVE PushSteps(_)
PushSteps(ss) ==
    IF ss = <<>> THEN <<>>
    ELSE LET statements == render_raw_sql(Head(ss))
         IN  (IF statements # <<>>
              THEN StepMarkerPrefix \o Head(ss).description \o <<"]", NEWLINE>>
                   \o PushStatements(statements)
              ELSE <<>>)
             \o PushSteps(Tail(ss))

EmptyMigrationScript ==
    <<"-", "-", " ", "T", "h", "i", "s", " ", "i", "s", " ", "a", "n", " ",
      "e", "m", "p", "t", "y", " ", "m", "i", "g", "r", "a", "t", "i", "o", "n", ".">>

render_script(ss, diag) ==
    IF ss = <<>> THEN EmptyMigrationScript
    ELSE WarningsBlock(diag) \o PushSteps(ss)

\* Mutant: every statement is followed by ";" and a newline, as in a script.
JoinStatements_Terminated(statements) == PushStatements(statements)

RECURSIVE JoinStatements(_)
\* [String]::join(";\n")
JoinStatements(statements) ==
    IF statements = <<>> THEN <<>>
    ELSE IF Len(statements) = 1 THEN Head(statements)
    ELSE Head(statements) \o <<";", NEWLINE>> \o JoinStatements(Tail(statements))

\* serde_json::to_value(&step): the step's variant stands for its JSON.
StepToValue(step) == [tag |-> step.description]

RECURSIVE render_steps_pretty(_)
render_steps_pretty(ss) ==
    IF ss = <<>> THEN <<>>
    ELSE LET sql == JoinStatements(render_raw_sql(Head(ss)))
         IN  (IF sql # <<>>
              THEN << [step |-> StepToValue(Head(ss)), raw |-> sql] >>
              ELSE <<>>)
             \o render_steps_pretty(Tail(ss))

(***************************************************************************)
(* apply_script's split of a script into groups.                           *)
(***************************************************************************)
RECURSIVE FoldLines(_, _, _)
\* The fold of apply_script: acc is a list of (index, description, statement).
FoldLines(lines, i, acc) ==
    IF i > Len(lines) THEN acc
    ELSE LET line == lines[i]
         IN  IF StepSeparatorMatches(line)
             THEN FoldLines(lines, i + 1,
                      Append(acc, [index |-> i - 1,
                                   description |-> StepSeparatorCapture(line),
                                   statement |-> <<>>]))
             ELSE LET last == acc[Len(acc)]
                  IN  FoldLines(lines, i + 1,
                          [acc EXCEPT ![Len(acc)] =
                              [last EXCEPT !.statement = @ \o line \o <<NEWLINE>>]])

SplitScript(script) ==
    FoldLines(Lines(script), 1,
              << [index |-> 0, description |-> <<>>, statement |-> <<>>] >>)

\* Mutant: the leading segment is not skipped.
ScriptGroups_NoSkip(script) ==
    LET all == SplitScript(script)
    IN  [k \in 1..Len(all) |-> all[k].statement]

\* statements.iter().skip(1), each entry's statement text.
ScriptGroups(script) ==
    LET all == SplitScript(script)
    IN  [k \in 1..(Len(all) - 1) |-> all[k + 1].statement]

(***************************************************************************)
(* The step applier's calls.  A call runs from its Call action to the      *)
(* state where result.tag is no longer "pending"; the connection answers   *)
(* each raw_cmd with success or with an error of its choosing.             *)
(***************************************************************************)
Pending == [tag |-> "pending", value |-> "-"]
NoResult == [tag |-> "none", value |-> "-"]
Ok(v) == [tag |-> "Ok", value |-> v]
Err(e) == [tag |-> "Err", value |-> e]
Panic == [tag |-> "panic", value |-> "-"]

\* The errors the connection may answer a raw_cmd with.
ConnErrors == {"e1", "e2"}

\* No applier call is under way.
Idle == call.op = "none"

InFlight(l) == l # <<>> /\ l[Len(l)].status = "inflight"

\* Mutant: an off-by-one bound test.
HasThisOne_OffByOne(ss, index) == index <= Len(ss)

\* steps.get(index).is_some(), index counted from 0.
HasThisOne(ss, index) == index < Len(ss)

\* Scripts a caller may hand to apply_script besides a rendered one.
ScriptNoMarker == <<"X", ";", NEWLINE>>
ScriptLeadingText ==
    <<"P", ";", NEWLINE>> \o StepMarkerPrefix \o <<"S", "]", NEWLINE>>
    \o <<"A", ";", NEWLINE>> \o StepMarkerPrefix \o <<"T", "]", NEWLINE>>
    \o <<"B", ";", NEWLINE, "C", ";", NEWLINE>>
ScriptEmptyGroup ==
    StepMarkerPrefix \o <<"S", "]", NEWLINE>> \o StepMarkerPrefix \o <<"T", "]", NEWLINE>>
    \o <<"B", ";", NEWLINE>>

HandScripts == {ScriptNoMarker, ScriptLeadingText, ScriptEmptyGroup}

InitApplier ==
    /\ steps \in SeqsUpTo(StepPool, MaxSteps)
    /\ diagnostics \in DiagnosticsPool
    /\ call = [op |-> "none", index |-> 0, script |-> <<>>]
    /\ queue = <<>>
    /\ log = <<>>
    /\ result = NoResult
    /\ rendered = [valid |-> FALSE, text |-> <<>>, pretty |-> <<>>]
    /\ conn = "Quaint"
    /\ ShellAtRest
    /\ DescriberAtRest
    /\ DefaultAtRest
    /\ RpcAtRest

\* apply_step -> apply_next_step, up to its loop.
ApplyStepCall(index) ==
    /\ Idle
    /\ call' = [op |-> "apply_step", index |-> index, script |-> <<>>]
    /\ log' = <<>>
    /\ IF ~HasThisOne(steps, index)
       THEN queue' = <<>> /\ result' = Ok("false")
       ELSE IF index >= Len(steps)
            THEN queue' = <<>> /\ result' = Panic       \* &steps[index] out of bounds
            ELSE LET statements == render_raw_sql(steps[index + 1])
                 IN  /\ queue' = statements
                     /\ result' = IF statements = <<>> THEN Ok("true") ELSE Pending
    /\ UNCHANGED <<steps, diagnostics, rendered>>
    /\ UNCHANGED <<shellVars, describeVars, defaultVars, rpcVars>>

\* Mutant: the loop does not await the previous raw_cmd before the next.
ApplyNextStepSend_NoAwait ==
    /\ call.op = "apply_step"
    /\ result = Pending
    /\ queue # <<>>
    /\ log' = Append(log, [cmd |-> Head(queue), status |-> "inflight", error |-> "-"])
    /\ queue' = Tail(queue)
    /\ UNCHANGED <<steps, diagnostics, call, result, rendered>>
    /\ UNCHANGED <<shellVars, describeVars, defaultVars, rpcVars>>

\* The loop of apply_next_step hands the next statement to raw_cmd.
ApplyNextStepSend ==
    /\ call.op = "apply_step"
    /\ result = Pending
    /\ queue # <<>>
    /\ ~InFlight(log)
    /\ log' = Append(log, [cmd |-> Head(queue), status |-> "inflight", error |-> "-"])
    /\ queue' = Tail(queue)
    /\ UNCHANGED <<steps, diagnostics, call, result, rendered>>
    /\ UNCHANGED <<shellVars, describeVars, defaultVars, rpcVars>>

\* raw_cmd(..).await? answered with success: the loop goes on, or ends with Ok(true).
ApplyNextStepOk ==
    /\ call.op = "apply_step"
    /\ result = Pending
    /\ InFlight(log)
    /\ log' = [log EXCEPT ![Len(log)].status = "ok"]
    /\ result' = IF queue = <<>> THEN Ok("true") ELSE Pending
    /\ UNCHANGED <<steps, diagnostics, call, queue, rendered>>
    /\ UNCHANGED <<shellVars, describeVars, defaultVars, rpcVars>>

\* Mutant: the error of a statement is swallowed and the loop goes on.
ApplyNextStepErr_Swallow ==
    /\ call.op = "apply_step"
    /\ result = Pending
    /\ InFlight(log)
    /\ \E e \in ConnErrors :
          /\ log' = [log EXCEPT ![Len(log)].status = "err", ![Len(log)].error = e]
          /\ result' = IF queue = <<>> THEN Err(e) ELSE Pending
    /\ UNCHANGED <<steps, diagnostics, call, queue, rendered>>
    /\ UNCHANGED <<shellVars, describeVars, defaultVars, rpcVars>>

\* raw_cmd(..).await? answered with an error: `?` returns it.
ApplyNextStepErr ==
    /\ call.op = "apply_step"
    /\ result = Pending
    /\ InFlight(log)
    /\ \E e \in ConnErrors :
          /\ log' = [log EXCEPT ![Len(log)].status = "err", ![Len(log)].error = e]
          /\ result' = Err(e)
    /\ UNCHANGED <<steps, diagnostics, call, queue, rendered>>
    /\ UNCHANGED <<shellVars, describeVars, defaultVars, rpcVars>>

RenderScriptCall ==
    /\ Idle
    /\ call' = [op |-> "render_script", index |-> 0, script |-> <<>>]
    /\ rendered' = [valid |-> TRUE, text |-> render_script(steps, diagnostics),
                    pretty |-> <<>>]
    /\ result' = Ok("script")
    /\ log' = <<>>
    /\ queue' = <<>>
    /\ UNCHANGED <<steps, diagnostics>>
    /\ UNCHANGED <<shellVars, describeVars, defaultVars, rpcVars>>

RenderStepsPrettyCall ==
    /\ Idle
    /\ call' = [op |-> "render_steps_pretty", index |-> 0, script |-> <<>>]
    /\ rendered' = [valid |-> FALSE, text |-> <<>>, pretty |-> render_steps_pretty(steps)]
    /\ result' = Ok("steps")
    /\ log' = <<>>
    /\ queue' = <<>>
    /\ UNCHANGED <<steps, diagnostics>>
    /\ UNCHANGED <<shellVars, describeVars, defaultVars, rpcVars>>

\* apply_script up to its loop: the script is split into groups.
ApplyScriptCall(script) ==
    /\ Idle
    /\ call' = [op |-> "apply_script", index |-> 0, script |-> script]
    /\ log' = <<>>
    /\ LET groups == ScriptGroups(script)
       IN  /\ queue' = groups
           /\ result' = IF Len(groups) = 0 THEN Ok("unit") ELSE Pending
    /\ UNCHANGED <<steps, diagnostics, rendered>>
    /\ UNCHANGED <<shellVars, describeVars, defaultVars, rpcVars>>

ApplyScriptSend ==
    /\ call.op = "apply_script"
    /\ result = Pending
    /\ Len(queue) > 0
    /\ ~InFlight(log)
    /\ log' = Append(log, [cmd |-> Head(queue), status |-> "inflight", error |-> "-"])
    /\ queue' = Tail(queue)
    /\ UNCHANGED <<steps, diagnostics, call, result, rendered>>
    /\ UNCHANGED <<shellVars, describeVars, defaultVars, rpcVars>>

ApplyScriptOk ==
    /\ call.op = "apply_script"
    /\ result = Pending
    /\ InFlight(log)
    /\ log' = [log EXCEPT ![Len(log)].status = "ok"]
    /\ result' = IF Len(queue) = 0 THEN Ok("unit") ELSE Pending
    /\ UNCHANGED <<steps, diagnostics, call, queue, rendered>>
    /\ UNCHANGED <<shellVars, describeVars, defaultVars, rpcVars>>

\* Mutant: the error of a group is swallowed and the loop goes on.
ApplyScriptErr_Swallow ==
    /\ call.op = "apply_script"
    /\ result = Pending
    /\ InFlight(log)
    /\ \E e \in ConnErrors :
          /\ log' = [log EXCEPT ![Len(log)].status = "err", ![Len(log)].error = e]
          /\ result' = IF Len(queue) = 0 THEN Err(e) ELSE Pending
    /\ UNCHANGED <<steps, diagnostics, call, queue, rendered>>
    /\ UNCHANGED <<shellVars, describeVars, defaultVars, rpcVars>>

\* raw_cmd(statement).await? answered with an error: `?` returns it.
ApplyScriptErr ==
    /\ call.op = "apply_script"
    /\ result = Pending
    /\ InFlight(log)
    /\ \E e \in ConnErrors :
          /\ log' = [log EXCEPT ![Len(log)].status = "err", ![Len(log)].error = e]
          /\ result' = Err(e)
    /\ UNCHANGED <<steps, diagnostics, call, queue, rendered>>
    /\ UNCHANGED <<shellVars, describeVars, defaultVars, rpcVars>>

\* The caller takes the returned value; the connector is idle again.
CallReturns ==
    /\ call.op # "none"
    /\ result.tag # "pending"
    /\ call' = [op |-> "none", index |-> 0, script |-> <<>>]
    /\ queue' = <<>>
    /\ log' = <<>>
    /\ result' = NoResult
    /\ rendered' = [valid |-> FALSE, text |-> <<>>, pretty |-> <<>>]
    /\ UNCHANGED <<steps, diagnostics>>
    /\ UNCHANGED <<shellVars, describeVars, defaultVars, rpcVars>>

NextApplier ==
    \/ \E index \in 0..(MaxSteps + 1) : ApplyStepCall(index)
    \/ ApplyNextStepSend
    \/ ApplyNextStepOk
    \/ ApplyNextStepErr
    \/ RenderScriptCall
    \/ RenderStepsPrettyCall
    \/ \E script \in {render_script(steps, diagnostics)} \cup HandScripts :
          ApplyScriptCall(script)
    \/ ApplyScriptSend
    \/ ApplyScriptOk
    \/ ApplyScriptErr
    \/ CallReturns

SpecApplier == InitApplier /\ [][NextApplier]_vars

(***************************************************************************)
(* Properties of the step applier.                                         *)
(***************************************************************************)
LogCmds(l) == [k \in 1..Len(l) |-> l[k].cmd]

IsPrefix(p, s) == Len(p) <= Len(s) /\ \A k \in 1..Len(p) : p[k] = s[k]

InApplyStep == call.op = "apply_step"
InApplyScript == call.op = "apply_script"

\* The statements the selected step renders to (the index is in range).
SelectedStatements == render_raw_sql(steps[call.index + 1])

\* C1: in apply_step, when the raw_cmd of the k-th statement of the selected
\* step fails, the call returns that error, the failing statement is the last
\* one sent (nothing after it, no second try), and what was sent is exactly
\* statements 1..k of the step (no statement undoing the earlier ones).
C1_ApplyStepFailureAborts ==
    InApplyStep =>
        \A k \in 1..Len(log) :
            log[k].status = "err" =>
                /\ k = Len(log)
                /\ result = Err(log[k].error)
                /\ LogCmds(log) = SubSeq(SelectedStatements, 1, k)
                /\ \A j \in 1..(k - 1) : log[j].status = "ok"

\* A second statement failed after the first succeeded, with one more unsent.
C1_Witness ==
    /\ InApplyStep
    /\ Len(log) = 2
    /\ log[1].status = "ok"
    /\ log[2].status = "err"
    /\ result.tag = "Err"

\* C2: for every index at or past the end of the step list, apply_step
\* returns Ok(false) and sends nothing to the connection.
C2_OutOfRangeReturnsFalse ==
    (InApplyStep /\ call.index >= Len(steps)) =>
        /\ result = Ok("false")
        /\ log = <<>>

C2_Witness ==
    /\ InApplyStep
    /\ Len(steps) = 2
    /\ call.index = Len(steps)
    /\ result = Ok("false")

\* C3: for an in-range index, apply_step sends the statements of that one
\* step, in render order, each once, the next only after the previous has
\* completed; when none fails it ends with Ok(true) having sent them all.
C3_ApplyStepSendsStepInOrder ==
    (InApplyStep /\ call.index < Len(steps)) =>
        /\ IsPrefix(LogCmds(log), SelectedStatements)
        /\ \A k \in 1..(Len(log) - 1) : log[k].status = "ok"
        /\ (\A k \in 1..Len(log) : log[k].status = "ok") =>
              \/ result = Pending
              \/ result = Ok("true") /\ LogCmds(log) = SelectedStatements
        /\ result = Ok("true") => \A k \in 1..Len(log) : log[k].status = "ok"

\* The second of three steps... a two-statement step fully applied, beside another step.
C3_Witness ==
    /\ InApplyStep
    /\ Len(steps) = 2
    /\ call.index < Len(steps)
    /\ Len(SelectedStatements) = 2
    /\ Len(log) = 2
    /\ result = Ok("true")

\* The steps whose rendering is non-empty, each as the text of its statements
\* followed by ";" and a newline.
RECURSIVE ExpectedGroups(_)
ExpectedGroups(ss) ==
    IF ss = <<>> THEN <<>>
    ELSE (IF render_raw_sql(Head(ss)) # <<>>
          THEN << PushStatements(render_raw_sql(Head(ss))) >>
          ELSE <<>>)
         \o ExpectedGroups(Tail(ss))

\* C4: splitting the output of render_script the way apply_script does, and
\* dropping the leading segment, gives one group per step with a non-empty
\* rendering, in step order, each the step's statements followed by ";\n".
C4_RenderSplitRoundTrip ==
    rendered.valid => ScriptGroups(rendered.text) = ExpectedGroups(steps)

\* No line of any statement of the migration reads like a step marker.
NoMarkerLineInStatements ==
    \A i \in 1..Len(steps) :
        \A j \in 1..Len(steps[i].statements) :
            \A l \in 1..Len(Lines(steps[i].statements[j] \o <<";">>)) :
                ~StepSeparatorMatches(Lines(steps[i].statements[j] \o <<";">>)[l])

\* The round trip on migrations whose statements hold no marker-like line.
RoundTripWithoutMarkerLines ==
    (rendered.valid /\ NoMarkerLineInStatements) =>
        ScriptGroups(rendered.text) = ExpectedGroups(steps)

\* The positions (in Lines(script)) of the step-marker lines, in order.
MarkerPositions(script) ==
    LET lines == Lines(script)
        S == { i \in 1..Len(lines) : StepSeparatorMatches(lines[i]) }
    IN  [k \in 1..Cardinality(S) |->
            CHOOSE i \in S : Cardinality({ j \in S : j < i }) = k - 1]

RECURSIVE JoinLines(_, _, _)
\* lines[from..to], each followed by a newline.
JoinLines(lines, from, to) ==
    IF from > to THEN <<>>
    ELSE lines[from] \o <<NEWLINE>> \o JoinLines(lines, from + 1, to)

\* The lines between the k-th marker and the next one (or the end).
TextAfterMarker(script, k) ==
    LET lines == Lines(script)
        pos == MarkerPositions(script)
        stop == IF k < Len(pos) THEN pos[k + 1] - 1 ELSE Len(lines)
    IN  JoinLines(lines, pos[k] + 1, stop)

\* C5: apply_script sends, in marker order, the text that follows each step
\* marker up to the next marker: never text from before the first marker;
\* a script without a marker sends nothing and returns success.
C5_ApplyScriptSkipsLeadingText ==
    InApplyScript =>
        /\ Len(log) <= Len(MarkerPositions(call.script))
        /\ \A k \in 1..Len(log) : log[k].cmd = TextAfterMarker(call.script, k)
        /\ Len(MarkerPositions(call.script)) = 0 => (log = <<>> /\ result = Ok("unit"))

\* A script with text before its first marker and two markers, fully applied.
C5_Witness ==
    /\ InApplyScript
    /\ Len(MarkerPositions(call.script)) = 2
    /\ MarkerPositions(call.script)[1] > 1
    /\ Len(log) = 2
    /\ result = Ok("unit")

\* C6: in apply_script, when a group fails the call returns that error and
\* no later group is sent.
C6_ApplyScriptFailureAborts ==
    InApplyScript =>
        \A k \in 1..Len(log) :
            log[k].status = "err" =>
                /\ k = Len(log)
                /\ result = Err(log[k].error)

\* The first group failed while a later group was still to be sent.
C6_Witness ==
    /\ InApplyScript
    /\ Len(log) = 1
    /\ log[1].status = "err"
    /\ Len(queue) > 0
    /\ result.tag = "Err"

\* The steps of the migration that render to at least one statement.
StepsWithStatements == SelectSeq(steps, LAMBDA st : render_raw_sql(st) # <<>>)

\* A step as the script shows it: its marker line, then each statement of
\* its rendering followed by ";" and a newline.
StepAsScript(st) ==
    <<"-", "-", " ", "[", "S", "t", "e", "p", ":", " ">> \o st.description
    \o <<"]", NEWLINE>>
    \o Concat([j \in 1..Len(render_raw_sql(st)) |->
                  render_raw_sql(st)[j] \o <<";", NEWLINE>>])

StepsAsScript ==
    Concat([k \in 1..Len(StepsWithStatements) |-> StepAsScript(StepsWithStatements[k])])

\* What the script holds ahead of its steps.
ScriptLead(text) == SubSeq(text, 1, Len(text) - Len(StepsAsScript))

HasMarkerLine(text) ==
    \E l \in 1..Len(Lines(text)) : StepSeparatorMatches(Lines(text)[l])

\* C11: the script of render_script ends with, for each step that renders to
\* at least one statement and in step order, the marker line
\* "-- [Step: <description>]" and the step's statements in the renderer's
\* order, each followed by ";" and a newline; no other marker line is emitted.
C11_ScriptListsStepsInOrder ==
    rendered.valid =>
        /\ Len(StepsAsScript) <= Len(rendered.text)
        /\ SubSeq(rendered.text, Len(ScriptLead(rendered.text)) + 1, Len(rendered.text))
              = StepsAsScript
        /\ ~HasMarkerLine(ScriptLead(rendered.text))

\* A script was rendered for a migration with a step that renders to nothing
\* and a step that renders to two statements.
C11_Witness ==
    /\ rendered.valid
    /\ \E i \in 1..Len(steps) : render_raw_sql(steps[i]) = <<>>
    /\ \E i \in 1..Len(steps) : Len(render_raw_sql(steps[i])) = 2

HasDiagnostics ==
    diagnostics.warnings # <<>> \/ diagnostics.unexecutable_migrations # <<>>

\* The descriptions the block has to list: the warnings, then the
\* unexecutable migrations.
DiagnosticDescriptions == diagnostics.warnings \o diagnostics.unexecutable_migrations

\* The end of the comment that opens the text: the index of the "/" of the
\* first "*/", or 0 when the text does not open with a comment.
LeadingCommentEnd(text) ==
    LET ends == { i \in 4..Len(text) : text[i - 1] = "*" /\ text[i] = "/" }
    IN  IF Len(text) >= 2 /\ text[1] = "/" /\ text[2] = "*" /\ ends # {}
        THEN NthSmallest(ends, 1)
        ELSE 0

\* The lines of the comment hold the descriptions as list items, in order.
ListsInOrder(lines, descriptions) ==
    \E at \in [1..Len(descriptions) -> 1..Len(lines)] :
        /\ \A k \in 1..Len(descriptions) :
              lines[at[k]] = <<" ", " ", "-", " ">> \o descriptions[k]
        /\ \A j, k \in 1..Len(descriptions) : j < k => at[j] < at[k]

\* The script opens with a comment block listing every diagnostic, and the
\* steps come after it.
CommentBlockLeads(text) ==
    LET stop == LeadingCommentEnd(text)
    IN  /\ stop > 0
        /\ ListsInOrder(Lines(SubSeq(text, 1, stop)), DiagnosticDescriptions)
        /\ stop <= Len(ScriptLead(text))

\* C12 as stated: whenever the diagnostics hold a warning or an unexecutable
\* migration, the script of render_script opens with a comment block that
\* lists every warning and then every unexecutable migration, ahead of the
\* first step marker and of every statement.
C12_DiagnosticsAlwaysListed ==
    (rendered.valid /\ HasDiagnostics) => CommentBlockLeads(rendered.text)

\* C12, amended: the same for every migration that has at least one step.
C12_DiagnosticsListedAheadOfSteps ==
    (rendered.valid /\ HasDiagnostics /\ steps # <<>>) =>
        CommentBlockLeads(rendered.text)

\* A script was rendered for a migration with statements, a warning and an
\* unexecutable migration.
C12_Witness ==
    /\ rendered.valid
    /\ StepsWithStatements # <<>>
    /\ diagnostics.warnings # <<>>
    /\ diagnostics.unexecutable_migrations # <<>>

InRenderStepsPretty == call.op = "render_steps_pretty"

\* The statements of a step with ";" and a newline between one and the next.
JoinedSql(st) ==
    Concat([j \in 1..Len(render_raw_sql(st)) |->
               IF j < Len(render_raw_sql(st))
               THEN render_raw_sql(st)[j] \o <<";", NEWLINE>>
               ELSE render_raw_sql(st)[j]])

\* The steps whose rendered SQL is not empty.
StepsWithSql == SelectSeq(steps, LAMBDA st : JoinedSql(st) # <<>>)

ApplyStepCommands == Concat([i \in 1..Len(steps) |-> render_raw_sql(steps[i])])

\* apply_script has run to its end, with no failure, on the script that
\* render_script gives for the migration.
AppliedRenderedScript ==
    /\ InApplyScript
    /\ call.script = render_script(steps, diagnostics)
    /\ result = Ok("unit")

\* C26: when no statement fails, apply_script run on the output of
\* render_script sends the same raw_cmds, with the same statement boundaries
\* and in the same order, as apply_step called for each index in order.
C26_ScriptPathSendsSameCommands ==
    AppliedRenderedScript => LogCmds(log) = ApplyStepCommands

\* What the script path does send for a migration without marker-like lines
\* in its statements: one raw_cmd per step that renders to statements,
\* holding all of the step's statements, each followed by ";" and a newline.
ScriptPathSendsOneCommandPerStep ==
    (AppliedRenderedScript /\ NoMarkerLineInStatements) =>
        LogCmds(log) = ExpectedGroups(steps)

\* The rendered script of a migration with a two-statement step was applied
\* in one raw_cmd.
ScriptPathWitness ==
    /\ AppliedRenderedScript
    /\ Len(steps) = 1
    /\ Len(render_raw_sql(steps[1])) = 2
    /\ Len(log) = 1

\* The marker line render_script writes for a step.
MarkerLineOf(st) == StepMarkerPrefix \o st.description \o <<"]">>

\* The lines of the script that are the marker line of a step of the
\* migration.
StepMarkerLines(text) ==
    { l \in 1..Len(Lines(text)) :
        \E i \in 1..Len(steps) : Lines(text)[l] = MarkerLineOf(steps[i]) }

\* C27: render_script and render_steps_pretty treat the same steps as
\* non-empty: the script holds as many step markers as the pretty list has
\* entries, also for a step that renders to empty statement strings.
C27_MarkersMatchPrettyEntries ==
    rendered.valid =>
        Cardinality(StepMarkerLines(rendered.text)) = Len(render_steps_pretty(steps))

\* The step renders to statements, all of them empty strings.
RendersOnlyEmptyStatements(st) ==
    /\ render_raw_sql(st) # <<>>
    /\ \A j \in 1..Len(render_raw_sql(st)) : render_raw_sql(st)[j] = <<>>

\* The two renderings agree on every migration none of whose steps renders
\* to empty statement strings only.
MarkersMatchPrettyEntriesOfNonEmptyStatements ==
    (rendered.valid /\ \A i \in 1..Len(steps) : ~RendersOnlyEmptyStatements(steps[i])) =>
        Cardinality(StepMarkerLines(rendered.text)) = Len(render_steps_pretty(steps))

\* A script was rendered with a marker for a step that renders to one empty
\* statement string, which has no entry in the pretty list.
EmptyStatementWitness ==
    /\ rendered.valid
    /\ Len(steps) = 1
    /\ RendersOnlyEmptyStatements(steps[1])
    /\ Cardinality(StepMarkerLines(rendered.text)) = 1
    /\ render_steps_pretty(steps) = <<>>

(***************************************************************************)
(* The connection shells.  Quaint (io_shell.rs) maps the driver's result;  *)
(* IoTask (sql-schema-describer-js) forwards raw_cmd over a request and a  *)
(* response channel to a worker task that calls the host's shell.          *)
(***************************************************************************)
\* mpsc::channel(10): the buffer, plus one slot the single sender is granted.
ChannelBuffer == 10

\* What the database may answer the Quaint driver: success, or an error with
\* a message and, optionally, the vendor's code.
QuaintOutcomes ==
    { [ok |-> TRUE,  message |-> "-", code |-> "-"],
      [ok |-> FALSE, message |-> "m", code |-> "None"],
      [ok |-> FALSE, message |-> "m", code |-> "Some(1555)"] }

\* .map_err(|qerr| DatabaseError { message, error_code }) on the driver's result.
QuaintMapErr(op, outcome) ==
    IF outcome.ok
    THEN [tag |-> "Ok", message |-> "-", error_code |-> "-"]
    ELSE [tag |-> "Err(DatabaseError)", message |-> outcome.message,
          error_code |-> outcome.code]

\* <Quaint as IoShell>::query and ::raw_cmd.
QuaintCall(op, outcome) ==
    /\ conn = "Quaint"
    /\ quaint' = [op |-> op,
                  db |-> IF outcome.ok THEN "ok" ELSE "failed",
                  result |-> QuaintMapErr(op, outcome)]
    /\ UNCHANGED <<conn, mutex, callers, returned, requests, responses, worker,
                   host_inflight, host_outcome, ncalls>>
    /\ UNCHANGED <<applierVars, describeVars, defaultVars, rpcVars>>

\* <IoTask as IoShell>::query is todo!(): the call panics.
IoTaskQuery(c) ==
    /\ conn = "IoTask"
    /\ callers[c].pc = "idle"
    /\ ncalls < MaxCalls
    /\ ncalls' = ncalls + 1
    /\ returned' = [caller |-> c, id |-> 0, got |-> 0, result |-> "panic", db |-> "unknown"]
    /\ UNCHANGED <<conn, quaint, mutex, callers, requests, responses, worker,
                   host_inflight, host_outcome>>
    /\ UNCHANGED <<applierVars, describeVars, defaultVars, rpcVars>>

\* IoTask::raw_cmd is called: the future starts by asking for the mutex.
RawCmdStart(c) ==
    /\ conn = "IoTask"
    /\ callers[c].pc = "idle"
    /\ ncalls < MaxCalls
    /\ ncalls' = ncalls + 1
    /\ callers' = [callers EXCEPT ![c] = [pc |-> "lock", id |-> ncalls + 1]]
    /\ UNCHANGED <<conn, quaint, mutex, returned, requests, responses, worker,
                   host_inflight, host_outcome>>
    /\ UNCHANGED <<applierVars, describeVars, defaultVars, rpcVars>>

\* self.inner.lock().await completes: the guard is taken.
RawCmdLock(c) ==
    /\ callers[c].pc = "lock"
    /\ mutex = 0
    /\ mutex' = c
    /\ callers' = [callers EXCEPT ![c].pc = "send"]
    /\ UNCHANGED <<conn, quaint, returned, requests, responses, worker,
                   host_inflight, host_outcome, ncalls>>
    /\ UNCHANGED <<applierVars, describeVars, defaultVars, rpcVars>>

\* What the database did with command id, as far as the host has answered.
OutcomeOf(id) ==
    IF [id |-> id, db |-> "failed"] \in host_outcome THEN "failed"
    ELSE IF [id |-> id, db |-> "ok"] \in host_outcome THEN "ok"
    ELSE "unknown"

\* The call of caller c ends with this result having taken response `got`.
Returns(c, got, res) ==
    /\ callers' = [callers EXCEPT ![c].pc = "idle"]
    /\ returned' = [caller |-> c, id |-> callers[c].id, got |-> got, result |-> res,
                    db |-> OutcomeOf(callers[c].id)]
    /\ host_outcome' = { o \in host_outcome : o.id # callers[c].id }

\* guard.0.send((query_str, None)).await.unwrap(): the request is queued, or
\* the receiver is gone and unwrap panics (the guard is dropped on the way).
RawCmdSend(c) ==
    /\ callers[c].pc = "send"
    /\ IF worker.pc = "dead" /\ worker.dropped
       THEN /\ Returns(c, 0, "panic")
            /\ mutex' = 0
            /\ UNCHANGED requests
       ELSE /\ Len(requests) < ChannelBuffer + 1
            /\ requests' = Append(requests, [id |-> callers[c].id, cmd |-> "q"])
            /\ callers' = [callers EXCEPT ![c].pc = "recv"]
            /\ UNCHANGED <<mutex, returned, host_outcome>>
    /\ UNCHANGED <<conn, quaint, responses, worker, host_inflight, ncalls>>
    /\ UNCHANGED <<applierVars, describeVars, defaultVars, rpcVars>>

\* guard.1.next().await.unwrap(); Ok(()): the head of the response channel is
\* taken and the call returns Ok(()), whatever the response holds; with the
\* channel empty and its sender gone, next() is None and unwrap panics.
RawCmdRecv(c) ==
    /\ callers[c].pc = "recv"
    /\ IF responses # <<>>
       THEN /\ responses' = Tail(responses)
            /\ Returns(c, Head(responses).id, "Ok(())")
       ELSE /\ worker.pc = "dead" /\ worker.dropped
            /\ Returns(c, 0, "panic")
            /\ UNCHANGED responses
    /\ mutex' = 0
    /\ UNCHANGED <<conn, quaint, requests, worker, host_inflight, ncalls>>
    /\ UNCHANGED <<applierVars, describeVars, defaultVars, rpcVars>>

\* The future returned by raw_cmd is dropped at one of its await points; a
\* guard it holds is released, a request it has sent stays sent.
RawCmdAbandon(c) ==
    /\ callers[c].pc \in {"lock", "send", "recv"}
    /\ Returns(c, 0, "abandoned")
    /\ mutex' = IF mutex = c THEN 0 ELSE mutex
    /\ UNCHANGED <<conn, quaint, requests, responses, worker, host_inflight, ncalls>>
    /\ UNCHANGED <<applierVars, describeVars, defaultVars, rpcVars>>

\* Mutant: the worker hands the command to the host and takes the next
\* message without awaiting the host's answer.
WorkerNext_NoAwait ==
    /\ worker.pc = "next"
    /\ requests # <<>>
    /\ requests' = Tail(requests)
    /\ host_inflight' = host_inflight \cup {Head(requests).id}
    /\ UNCHANGED worker
    /\ UNCHANGED <<conn, quaint, mutex, callers, returned, responses, host_outcome, ncalls>>
    /\ UNCHANGED <<applierVars, describeVars, defaultVars, rpcVars>>

\* while let Some(msg) = receiver.next().await: a (query_str, None) message
\* is handed to the host with shell.raw_cmd(query_str), which is awaited.
WorkerNext ==
    /\ worker.pc = "next"
    /\ requests # <<>>
    /\ requests' = Tail(requests)
    /\ worker' = [worker EXCEPT !.pc = "host", !.msg = Head(requests)]
    /\ host_inflight' = host_inflight \cup {Head(requests).id}
    /\ UNCHANGED <<conn, quaint, mutex, callers, returned, responses, host_outcome, ncalls>>
    /\ UNCHANGED <<applierVars, describeVars, defaultVars, rpcVars>>

\* How the host may end a command: the database ran it and the promise
\* resolves; the database failed it and the promise resolves all the same
\* (the failure is in the value); the database failed it and the promise
\* is rejected.
HostEndings ==
    { [db |-> "ok", promise |-> "resolved"],
      [db |-> "failed", promise |-> "resolved"],
      [db |-> "failed", promise |-> "rejected"] }

\* The host answers a command.  shell.raw_cmd(..).await yields the value of
\* a resolved promise, which the worker discards; a rejected promise makes
\* the imported async fn panic, and the worker ends there: by unwinding
\* (its channel ends are dropped) or by aborting (they are not).
HostAnswers(id, ending, unwinds) ==
    /\ id \in host_inflight
    /\ host_inflight' = host_inflight \ {id}
    /\ host_outcome' =
          IF \E c \in Callers : callers[c].pc # "idle" /\ callers[c].id = id
          THEN host_outcome \cup {[id |-> id, db |-> ending.db]}
          ELSE host_outcome
    /\ IF worker.pc = "host" /\ worker.msg.id = id
       THEN IF ending.promise = "resolved"
            THEN worker' = [worker EXCEPT !.pc = "send"]
            ELSE worker' = [worker EXCEPT !.pc = "dead", !.dropped = unwinds]
       ELSE UNCHANGED worker
    /\ UNCHANGED <<conn, quaint, mutex, callers, returned, requests, responses, ncalls>>
    /\ UNCHANGED <<applierVars, describeVars, defaultVars, rpcVars>>

\* response_sender.send(None).await.unwrap(), then back to receiver.next();
\* with the response receiver dropped send is an error and unwrap panics.
WorkerRespond ==
    /\ worker.pc = "send"
    /\ IF conn = "Dropped"
       THEN /\ worker' = [worker EXCEPT !.pc = "send_failed"]
            /\ UNCHANGED responses
       ELSE /\ Len(responses) < ChannelBuffer + 1
            /\ responses' = Append(responses, [id |-> worker.msg.id, value |-> "None"])
            /\ worker' = [worker EXCEPT !.pc = "next", !.msg = NoMsg]
    /\ UNCHANGED <<conn, quaint, mutex, callers, returned, requests, host_inflight,
                   host_outcome, ncalls>>
    /\ UNCHANGED <<applierVars, describeVars, defaultVars, rpcVars>>

\* The IoTask is dropped; no raw_cmd future borrows it any more.  Its sender
\* and its response receiver go with it: the request channel is closed, the
\* responses still buffered are discarded.
IoTaskDrop ==
    /\ conn = "IoTask"
    /\ \A c \in Callers : callers[c].pc = "idle"
    /\ conn' = "Dropped"
    /\ responses' = <<>>
    /\ UNCHANGED <<quaint, mutex, callers, returned, requests, worker, host_inflight,
                   host_outcome, ncalls>>
    /\ UNCHANGED <<applierVars, describeVars, defaultVars, rpcVars>>

\* receiver.next().await is None once the channel is closed and drained: the
\* while-let loop is left and the task completes.
WorkerEnds ==
    /\ worker.pc = "next"
    /\ requests = <<>>
    /\ conn = "Dropped"
    /\ worker' = [worker EXCEPT !.pc = "ended", !.dropped = TRUE]
    /\ UNCHANGED <<conn, quaint, mutex, callers, returned, requests, responses,
                   host_inflight, host_outcome, ncalls>>
    /\ UNCHANGED <<applierVars, describeVars, defaultVars, rpcVars>>

InitShell ==
    /\ conn \in {"Quaint", "IoTask"}
    /\ ShellAtRest
    /\ ApplierAtRest
    /\ DescriberAtRest
    /\ DefaultAtRest
    /\ RpcAtRest

NextShell ==
    \/ \E op \in {"query", "raw_cmd"}, outcome \in QuaintOutcomes : QuaintCall(op, outcome)
    \/ \E c \in Callers : IoTaskQuery(c)
    \/ \E c \in Callers : RawCmdStart(c)
    \/ \E c \in Callers : RawCmdLock(c)
    \/ \E c \in Callers : RawCmdSend(c)
    \/ \E c \in Callers : RawCmdRecv(c)
    \/ \E c \in Callers : RawCmdAbandon(c)
    \/ WorkerNext
    \/ \E id \in host_inflight, ending \in HostEndings, unwinds \in BOOLEAN :
          HostAnswers(id, ending, unwinds)
    \/ WorkerRespond
    \/ IoTaskDrop
    \/ WorkerEnds

SpecShell == InitShell /\ [][NextShell]_vars

\* The worker task is polled whenever it can go on, and the host ends every
\* command it is given, one way or another.
FairShell ==
    /\ WF_vars(WorkerNext)
    /\ WF_vars(WorkerRespond)
    /\ WF_vars(WorkerEnds)
    /\ WF_vars(\E id \in host_inflight, ending \in HostEndings, unwinds \in BOOLEAN :
                  HostAnswers(id, ending, unwinds))

SpecShellFair == InitShell /\ [][NextShell]_vars /\ FairShell

\* A raw_cmd future that is not dropped is polled whenever it can go on: it
\* takes the mutex when that is free, sends, and takes a response when one
\* is there.
FairCallers ==
    \A c \in Callers :
        /\ WF_vars(RawCmdLock(c))
        /\ WF_vars(RawCmdSend(c))
        /\ WF_vars(RawCmdRecv(c))

SpecShellAwaited == InitShell /\ [][NextShell]_vars /\ FairShell /\ FairCallers

(***************************************************************************)
(* Properties of the connection shells.                                    *)
(***************************************************************************)
\* C7: on the bridged shell, whatever the callers do, at most one command
\* is with the host shell (handed to it and not yet answered) at any time.
C7_AtMostOneInFlight ==
    Cardinality(host_inflight) <= 1

\* One command is with the host while another caller's request already
\* waits in the request channel (the first call was abandoned).
C7_Witness ==
    /\ Cardinality(host_inflight) = 1
    /\ requests # <<>>
    /\ \E c \in Callers : callers[c].pc = "recv"

\* The call that ended last returned to its caller (it was not abandoned),
\* and the database had failed its command.
ReturnedFromFailedCommand ==
    /\ returned.result \notin {"none", "abandoned"}
    /\ returned.db = "failed"

\* C8: on both shells a query or raw_cmd that fails on the database side
\* comes back to the caller as Err(DatabaseError) with a message and an
\* optional vendor code, never as success.
C8_FailureIsDatabaseError ==
    /\ quaint.db = "failed" =>
          /\ quaint.result.tag = "Err(DatabaseError)"
          /\ quaint.result.message = "m"
    /\ ReturnedFromFailedCommand => returned.result = "Err(DatabaseError)"

\* The Quaint half of C8, which the code keeps.
QuaintFailureIsDatabaseError ==
    quaint.db = "failed" =>
        /\ quaint.result.tag = "Err(DatabaseError)"
        /\ quaint.result.message = "m"
        /\ quaint.result.error_code \in {"None", "Some(1555)"}

\* The worker has stopped running: it left its loop, or it panicked.
WorkerStopped == worker.pc \in {"ended", "dead", "send_failed"}

\* The worker left its loop with nothing unanswered, or the host rejected a
\* command (which ends the worker whether or not the shell is dropped).
WorkerEndedAnswered ==
    \/ worker.pc = "ended" /\ requests = <<>> /\ host_inflight = {}
    \/ worker.pc = "dead"

\* C20: once the IoTask is dropped, the worker loop eventually ends, having
\* answered the commands handed to it.
C20_DropEndsWorkerAfterAnswering ==
    (conn = "Dropped") ~> WorkerEndedAnswered

\* Once the IoTask is dropped the worker eventually stops, one way or
\* another.
DropStopsWorker ==
    (conn = "Dropped") ~> WorkerStopped

\* Dropped with no command pending, the worker leaves its loop.
DropWhenQuietEndsWorker ==
    (conn = "Dropped" /\ requests = <<>> /\ worker.pc = "next") ~> (worker.pc = "ended")

\* The worker panicked on a response it could not send.
WorkerPanicsOnSend == worker.pc = "send_failed"

\* The call that ended last returned Ok(()) to its caller.
ReturnedOk == returned.result = "Ok(())"

\* C24: on the bridged shell, a raw_cmd call returns only after the host
\* has completed the command that call sent, and the response it takes from
\* the response channel is the one produced for its own request, also when
\* another caller's call was abandoned between its send and its receive.
C24_ResponseIsForOwnRequest ==
    ReturnedOk =>
        /\ returned.got = returned.id
        /\ returned.db \in {"ok", "failed"}

\* A call returned on the response produced for an earlier, abandoned call,
\* while its own command was yet to be answered by the host.
ReturnedOnAnothersResponse ==
    /\ ReturnedOk
    /\ returned.got # returned.id
    /\ returned.db = "unknown"

\* C29: on the bridged shell, when the host ends every command it is given
\* and the shell is not dropped, every raw_cmd call eventually returns,
\* however many callers there are.
C29_EveryCallReturns ==
    \A c \in Callers : (callers[c].pc # "idle") ~> (callers[c].pc = "idle")

\* The same as long as the host rejects no command's promise: the mutex and
\* the two channels by themselves hold up no call.
EveryCallReturnsUnlessRejected ==
    \A c \in Callers :
        (callers[c].pc # "idle") ~> (callers[c].pc = "idle" \/ worker.pc = "dead")

\* A caller waits for a response while the worker is gone without having
\* dropped its channel ends.
CallerWaitsOnDeadWorker ==
    /\ worker.pc = "dead"
    /\ ~worker.dropped
    /\ \E c \in Callers : callers[c].pc = "recv"

(***************************************************************************)
(* The SQLite schema describer: the catalog it reads.                      *)
(***************************************************************************)
\* row.str_at(i) of a NULL cell.
Null == "NULL"

\* The identifiers of the model in alphabetical order: ORDER BY name ASC and
\* the ordering of Vec<String> keys compare by it.
Alphabet == <<"a", "a_id", "b", "c", "id", "name", "p", "q",
              "sqlite_sequence", "sqlite_stat1", "x", "y">>

NameRank(n) == CHOOSE i \in 1..Len(Alphabet) : Alphabet[i] = n

ColumnRow(name, type, pk) ==
    [name |-> name, type |-> type, notnull |-> pk > 0, dflt_value |-> Null, pk |-> pk]

FkRow(id, seq, table, from, to) ==
    [id |-> id, seq |-> seq, table |-> table, from |-> from, to |-> to,
     on_update |-> "NO ACTION", on_delete |-> "CASCADE"]

IndexRow(name, unique, origin, partial, info) ==
    [name |-> name, unique |-> unique, origin |-> origin, partial |-> partial,
     info |-> info]

InfoRow(seqno, name) == [seqno |-> seqno, name |-> name]

TableDef(columns, foreign_keys, indexes) ==
    [columns |-> columns, foreign_keys |-> foreign_keys, indexes |-> indexes]

\* Table "a", the referenced one: a single INTEGER key with a key-backing,
\* a partial and a two-column index; a composite key declared out of key
\* order, with an expression index first; no primary key at all; a single
\* key column declared INT, which is no alias of the rowid; an expression
\* index listed between two indexes on named columns.
TableAPool ==
    { TableDef(<<ColumnRow("id", "INTEGER", 1), ColumnRow("name", "TEXT", 0)>>,
               <<>>,
               <<IndexRow("ipk", TRUE, "pk", FALSE, <<InfoRow(0, "id")>>),
                 IndexRow("ipart", FALSE, "c", TRUE, <<InfoRow(0, "name")>>),
                 IndexRow("itwo", FALSE, "c", FALSE,
                          <<InfoRow(1, "id"), InfoRow(0, "name")>>)>>),
      TableDef(<<ColumnRow("x", "TEXT", 2), ColumnRow("y", "INTEGER", 1)>>,
               <<>>,
               <<IndexRow("iexpr", FALSE, "c", FALSE, <<InfoRow(0, "x"), InfoRow(1, Null)>>),
                 IndexRow("ione", TRUE, "u", FALSE, <<InfoRow(0, "y")>>)>>),
      TableDef(<<ColumnRow("id", "INTEGER", 0)>>, <<>>, <<>>),
      TableDef(<<ColumnRow("id", "INT", 1)>>, <<>>, <<>>),
      TableDef(<<ColumnRow("x", "TEXT", 0), ColumnRow("y", "INTEGER", 1)>>,
               <<>>,
               <<IndexRow("ifirst", FALSE, "c", FALSE, <<InfoRow(0, "x")>>),
                 IndexRow("iexpr", FALSE, "c", FALSE, <<InfoRow(0, "y"), InfoRow(1, Null)>>),
                 IndexRow("ione", TRUE, "u", FALSE, <<InfoRow(0, "y")>>)>>) }

BColumns ==
    <<ColumnRow("id", "integer", 1), ColumnRow("a_id", "INT", 0),
      ColumnRow("p", "TEXT", 0), ColumnRow("q", "TEXT", 0)>>

\* Table "b", the referencing one: its foreign keys name their referenced
\* columns or not (short-hand syntax), over one column or two, and point to
\* "a", to a table that does not exist ("c") or to a system table; the rows
\* of a constraint may come out of order and between those of another.
TableBPool ==
    { TableDef(BColumns, fks, <<>>) : fks \in
        { <<>>,
          <<FkRow(0, 0, "a", "a_id", "id")>>,
          <<FkRow(0, 0, "a", "a_id", Null)>>,
          <<FkRow(0, 1, "a", "q", Null), FkRow(0, 0, "a", "p", Null)>>,
          <<FkRow(0, 0, "c", "a_id", "id")>>,
          <<FkRow(0, 0, "c", "a_id", Null)>>,
          <<FkRow(0, 0, "sqlite_stat1", "a_id", "tbl")>>,
          <<FkRow(0, 0, "c", "p", "id"), FkRow(1, 0, "a", "a_id", "id"),
            FkRow(2, 0, "a", "q", Null)>>,
          <<FkRow(0, 1, "a", "q", "name"), FkRow(1, 0, "a", "a_id", "id"),
            FkRow(0, 0, "a", "p", "id")>> } }

SystemTableDef == TableDef(<<ColumnRow("name", "TEXT", 0)>>, <<>>, <<>>)

SystemNamesPool == { {}, {"sqlite_stat1"}, {"sqlite_sequence", "sqlite_stat1"} }

ViewsPool == { <<>>, << [name |-> "v", definition |-> "SELECT 1"] >> }

\* No such table in the database (a table has at least one column).
Absent == TableDef(<<>>, <<>>, <<>>)

\* The catalog of a database holding these tables; sqlite_master answers
\* the table names ORDER BY name ASC.
MkCatalog(a, b, system, views) ==
    LET present == (IF a = Absent THEN {} ELSE {"a"})
                   \cup (IF b = Absent THEN {} ELSE {"b"}) \cup system
    IN  [names |-> SelectSeq(Alphabet, LAMBDA n : n \in present),
         tables |-> [n \in present |->
                        IF n = "a" THEN a ELSE IF n = "b" THEN b ELSE SystemTableDef],
         views |-> views]

CatalogPool ==
    { MkCatalog(a, b, system, views) :
        a \in TableAPool \cup {Absent}, b \in TableBPool \cup {Absent},
        system \in SystemNamesPool, views \in ViewsPool }

(***************************************************************************)
(* The describer's functions of a query's rows.                            *)
(***************************************************************************)
\* See https://www.sqlite.org/fileformat2.html
SQLITE_SYSTEM_TABLES ==
    {"sqlite_sequence", "sqlite_stat1", "sqlite_stat2", "sqlite_stat3", "sqlite_stat4"}

is_system_table(table_name) == table_name \in SQLITE_SYSTEM_TABLES

\* get_table_names: the names sqlite_master lists, without "sqlite_sequence".
get_table_names(cat) == SelectSeq(cat.names, LAMBDA n : n # "sqlite_sequence")

\* Mutant: the type name is compared as it is spelt.
ToLowercase_AsSpelt(str) == str

\* str::to_lowercase on the type names of the model.
ToLowercase(str) ==
    CASE str = "INTEGER" -> "integer"
      [] str = "INT" -> "int"
      [] str = "TEXT" -> "text"
      [] OTHER -> str

get_column_type(tpe, arity) ==
    LET tpe_lower == ToLowercase(tpe)
        family == CASE tpe_lower \in {"int", "integer"} -> "Int"
                    [] tpe_lower = "text" -> "String"
                    [] OTHER -> "Unsupported"
    IN  [full_data_type |-> tpe, family |-> family, arity |-> arity]

\* The keys of a map from integers, ascending: keys().collect() and sort.
SortedKeys(keys) == [k \in 1..Cardinality(keys) |-> NthSmallest(keys, k)]

\* HashMap::insert over the rows in order: the last row with a key wins.
LastRowWith(rows, field, key) ==
    rows[CHOOSE i \in 1..Len(rows) :
            /\ rows[i][field] = key
            /\ \A j \in (i + 1)..Len(rows) : rows[j][field] # key]

\* Mutant: the primary key's columns in the order the rows come.
PrimaryKeyColumns_RowOrder(rows) ==
    LET keyed == SelectSeq(rows, LAMBDA r : r.pk > 0)
    IN  [k \in 1..Len(keyed) |-> keyed[k].name]

\* pk_cols, read in the order of its sorted keys.
PrimaryKeyColumns(rows) ==
    LET sorted == SortedKeys({ rows[i].pk : i \in { j \in 1..Len(rows) : rows[j].pk > 0 } })
    IN  [k \in 1..Len(sorted) |->
            LastRowWith(rows, "pk", sorted[k]).name]

\* get_columns: the columns and the primary key of a table.
get_columns(rows) ==
    LET pk_columns == PrimaryKeyColumns(rows)
        col(row) ==
            LET tpe == get_column_type(row.type,
                           IF row.notnull THEN "Required" ELSE "Nullable")
            IN  [name |-> row.name, tpe |-> tpe, default |-> "None",
                 auto_increment |->
                     /\ Len(pk_columns) = 1
                     /\ row.name = pk_columns[1]
                     /\ ToLowercase(tpe.full_data_type) = "integer"]
    IN  [columns |-> [i \in 1..Len(rows) |-> col(rows[i])],
         primary_key |-> [is_some |-> Len(pk_columns) > 0, columns |-> pk_columns]]

ForeignKeyActionOf(str) ==
    CASE str = "NO ACTION" -> "NoAction"
      [] str = "RESTRICT" -> "Restrict"
      [] str = "SET NULL" -> "SetNull"
      [] str = "SET DEFAULT" -> "SetDefault"
      [] str = "CASCADE" -> "Cascade"

\* Mutant: the columns of a foreign key in the order the rows come.
ForeignKeyOf_RowOrder(rows, id) ==
    LET mine == SelectSeq(rows, LAMBDA r : r.id = id)
        named == SelectSeq(mine, LAMBDA r : r.to # Null)
    IN  [columns |-> [k \in 1..Len(mine) |-> mine[k].from],
         referenced_table |-> mine[1].table,
         referenced_columns |-> [k \in 1..Len(named) |-> named[k].to],
         on_delete_action |-> ForeignKeyActionOf(mine[1].on_delete),
         on_update_action |-> ForeignKeyActionOf(mine[1].on_update),
         constraint_name |-> "None"]

\* The foreign key built from the rows of one constraint id: the first row
\* gives the referenced table and the actions, each row its columns by seq.
ForeignKeyOf(rows, id) ==
    LET mine == SelectSeq(rows, LAMBDA r : r.id = id)
        first == mine[1]
        named == SelectSeq(mine, LAMBDA r : r.to # Null)
        seqs == { mine[i].seq : i \in 1..Len(mine) }
        refseqs == { named[i].seq : i \in 1..Len(named) }
        keys == SortedKeys(seqs)
        refkeys == SortedKeys(refseqs)
    IN  [columns |-> [k \in 1..Len(keys) |->
                         LastRowWith(mine, "seq", keys[k]).from],
         referenced_table |-> first.table,
         referenced_columns |-> [k \in 1..Len(refkeys) |->
                         LastRowWith(named, "seq", refkeys[k]).to],
         on_delete_action |-> ForeignKeyActionOf(first.on_delete),
         on_update_action |-> ForeignKeyActionOf(first.on_update),
         constraint_name |-> "None"]

\* The order of Vec<String>: by the first differing name, a prefix first.
RECURSIVE ColumnsLeq(_, _)
ColumnsLeq(s, t) ==
    IF s = <<>> THEN TRUE
    ELSE IF t = <<>> THEN FALSE
    ELSE IF Head(s) = Head(t) THEN ColumnsLeq(Tail(s), Tail(t))
    ELSE NameRank(Head(s)) < NameRank(Head(t))

\* get_foreign_keys: one ForeignKey per constraint id, sorted by their
\* columns; sort_unstable_by_key over a HashMap's values leaves the order of
\* foreign keys with equal columns open, so this is the set of outcomes.
get_foreign_keys(rows) ==
    LET ids == { rows[i].id : i \in 1..Len(rows) }
        n == Cardinality(ids)
        orders == { o \in [1..n -> ids] :
                      /\ \A i, j \in 1..n : i # j => o[i] # o[j]
                      /\ \A i \in 1..(n - 1) :
                            ColumnsLeq(ForeignKeyOf(rows, o[i]).columns,
                                       ForeignKeyOf(rows, o[i + 1]).columns) }
    IN  { [k \in 1..n |-> ForeignKeyOf(rows, o[k])] : o \in orders }

\* index.columns.resize(pos + 1, ""); index.columns[pos] = name
PlaceColumn(columns, pos, name) ==
    [k \in 1..(IF Len(columns) <= pos THEN pos + 1 ELSE Len(columns)) |->
        IF k = pos + 1 THEN name
        ELSE IF k <= Len(columns) THEN columns[k] ELSE ""]

RECURSIVE IndexColumns(_, _)
\* The inner loop of get_indices over the rows of PRAGMA index_info, up to
\* the first row without a column name.
IndexColumns(info, columns) ==
    IF info = <<>> \/ Head(info).name = Null THEN columns
    ELSE IndexColumns(Tail(info), PlaceColumn(columns, Head(info).seqno, Head(info).name))

HasAnonymousColumn(info) == \E i \in 1..Len(info) : info[i].name = Null

\* The rows of PRAGMA index_list that get_indices keeps.
FilteredIndexRows(rows) ==
    SelectSeq(rows, LAMBDA r : r.origin # "pk" /\ ~r.partial)

IndexOf(row) ==
    [name |-> row.name,
     tpe |-> IF row.unique THEN "Unique" ELSE "Normal",
     columns |-> IndexColumns(row.info, <<>>)]

\* Mutant: the purge drops every foreign key.
purge_dangling_foreign_keys_DropAll(tables) ==
    [i \in 1..Len(tables) |-> [tables[i] EXCEPT !.foreign_keys = <<>>]]

\* purge_dangling_foreign_keys (crate::common): from every table, drop the
\* foreign keys whose referenced table is not one of the tables.
purge_dangling_foreign_keys(tables) ==
    LET known == { tables[i].name : i \in 1..Len(tables) }
    IN  [i \in 1..Len(tables) |->
            [tables[i] EXCEPT !.foreign_keys =
                SelectSeq(@, LAMBDA fk : fk.referenced_table \in known)]]

\* tables.iter().find(|t| t.name == name): the first such table, if any.
FindTable(tables, name) ==
    LET hits == { i \in 1..Len(tables) : tables[i].name = name }
    IN  IF hits = {} THEN [is_some |-> FALSE, table |-> NoTable]
        ELSE [is_some |-> TRUE, table |-> tables[NthSmallest(hits, 1)]]

\* The second pass of describe aborts where an unwrap meets None: a foreign
\* key without referenced columns whose table is not found, or is found
\* without a primary key.
ResolvePanics(tables) ==
    \E i \in 1..Len(tables) : \E j \in 1..Len(tables[i].foreign_keys) :
        LET fk == tables[i].foreign_keys[j]
            found == FindTable(tables, fk.referenced_table)
        IN  /\ fk.referenced_columns = <<>>
            /\ (~found.is_some \/ ~found.table.primary_key.is_some)

\* Mutant: the columns are taken from the referencing table's own key.
ResolveReferencedColumns_OwnKey(tables) ==
    LET resolved(i, fk) ==
            IF fk.referenced_columns = <<>>
            THEN [fk EXCEPT !.referenced_columns = tables[i].primary_key.columns]
            ELSE fk
    IN  [i \in 1..Len(tables) |->
            [tables[i] EXCEPT !.foreign_keys =
                [j \in 1..Len(tables[i].foreign_keys) |->
                    resolved(i, tables[i].foreign_keys[j])]]]

\* The second pass of describe: a foreign key without referenced columns
\* gets the primary-key columns of the table it references.
ResolveReferencedColumns(tables) ==
    LET resolved(fk) ==
            IF fk.referenced_columns = <<>>
            THEN [fk EXCEPT !.referenced_columns =
                    FindTable(tables, fk.referenced_table).table.primary_key.columns]
            ELSE fk
    IN  [i \in 1..Len(tables) |->
            [tables[i] EXCEPT !.foreign_keys =
                [j \in 1..Len(tables[i].foreign_keys) |->
                    resolved(tables[i].foreign_keys[j])]]]

\* Mutant: describe without the purge of dangling foreign keys.
PurgedTables_NoPurge(tables) == tables

\* describe's call of purge_dangling_foreign_keys(&mut tables).
PurgedTables(tables) == purge_dangling_foreign_keys(tables)

get_views(cat) == cat.views

(***************************************************************************)
(* describe, one query at a time.                                          *)
(***************************************************************************)
\* The errors the connection may answer a query with.
QueryErrors == {"e1"}

\* From<io_shell::DatabaseError> for DescriberError
DescriberErrorFrom(e) == [kind |-> "IoShellError", message |-> e, error_code |-> "None"]

Query(kind, arg) == [kind |-> kind, arg |-> arg]

\* for table_name in table_names.iter().filter(|table| !is_system_table(&table))
DescribedNames(table_names) == SelectSeq(table_names, LAMBDA n : ~is_system_table(n))

\* What describe does between the last table and the query for the views:
\* purge, then resolve the omitted referenced columns, or abort.
PostProcess(tables) ==
    LET purged == PurgedTables(tables)
    IN  IF ResolvePanics(purged)
        THEN /\ describe_result' = Panic
             /\ describe_pc' = [stage |-> "done", table |-> 0, index |-> 0]
             /\ describe_tables' = purged
        ELSE /\ describe_tables' = ResolveReferencedColumns(purged)
             /\ describe_pc' = [stage |-> "views", table |-> 0, index |-> 0]
             /\ UNCHANGED describe_result

\* get_table returns the table; the loop of describe pushes it and goes on
\* to the next name, or leaves the loop.
PushTable(table) ==
    LET tables == Append(describe_tables, table)
    IN  /\ describe_cur' = NoTable
        /\ IF describe_pc.table < Len(describe_names)
           THEN /\ describe_tables' = tables
                /\ describe_pc' = [stage |-> "columns", table |-> describe_pc.table + 1,
                                   index |-> 0]
                /\ UNCHANGED describe_result
           ELSE PostProcess(tables)

CurrentName == describe_names[describe_pc.table]

DescribeCall ==
    /\ describe_pc.stage = "idle"
    /\ describe_pc' = [describe_pc EXCEPT !.stage = "table_names"]
    /\ describe_result' = Pending
    /\ UNCHANGED <<catalog, describe_names, describe_tables, describe_cur, describe_queries>>
    /\ UNCHANGED <<applierVars, shellVars, defaultVars, rpcVars>>

TableNamesOk ==
    /\ describe_pc.stage = "table_names"
    /\ describe_queries' = Append(describe_queries, Query("table_names", "-"))
    /\ describe_names' = DescribedNames(get_table_names(catalog))
    /\ IF describe_names' = <<>>
       THEN PostProcess(<<>>)
       ELSE /\ describe_pc' = [stage |-> "columns", table |-> 1, index |-> 0]
            /\ UNCHANGED <<describe_tables, describe_result>>
    /\ UNCHANGED <<catalog, describe_cur>>
    /\ UNCHANGED <<applierVars, shellVars, defaultVars, rpcVars>>

ColumnsOk ==
    /\ describe_pc.stage = "columns"
    /\ describe_queries' = Append(describe_queries, Query("table_info", CurrentName))
    /\ LET got == get_columns(catalog.tables[CurrentName].columns)
       IN  describe_cur' = [NoTable EXCEPT !.name = CurrentName,
                                           !.columns = got.columns,
                                           !.primary_key = got.primary_key]
    /\ describe_pc' = [describe_pc EXCEPT !.stage = "foreign_keys"]
    /\ UNCHANGED <<catalog, describe_names, describe_tables, describe_result>>
    /\ UNCHANGED <<applierVars, shellVars, defaultVars, rpcVars>>

ForeignKeysOk ==
    /\ describe_pc.stage = "foreign_keys"
    /\ describe_queries' = Append(describe_queries, Query("foreign_key_list", CurrentName))
    /\ \E fks \in get_foreign_keys(catalog.tables[CurrentName].foreign_keys) :
          describe_cur' = [describe_cur EXCEPT !.foreign_keys = fks]
    /\ describe_pc' = [describe_pc EXCEPT !.stage = "index_list"]
    /\ UNCHANGED <<catalog, describe_names, describe_tables, describe_result>>
    /\ UNCHANGED <<applierVars, shellVars, defaultVars, rpcVars>>

IndexListOk ==
    /\ describe_pc.stage = "index_list"
    /\ describe_queries' = Append(describe_queries, Query("index_list", CurrentName))
    /\ IF FilteredIndexRows(catalog.tables[CurrentName].indexes) = <<>>
       THEN PushTable(describe_cur)
       ELSE /\ describe_pc' = [describe_pc EXCEPT !.stage = "index_info", !.index = 1]
            /\ UNCHANGED <<describe_cur, describe_tables, describe_result>>
    /\ UNCHANGED <<catalog, describe_names>>
    /\ UNCHANGED <<applierVars, shellVars, defaultVars, rpcVars>>

IndexInfoOk ==
    /\ describe_pc.stage = "index_info"
    /\ LET rows == FilteredIndexRows(catalog.tables[CurrentName].indexes)
           row == rows[describe_pc.index]
           pushed == [describe_cur EXCEPT !.indices = Append(@, IndexOf(row))]
       IN  /\ describe_queries' = Append(describe_queries, Query("index_info", row.name))
           /\ IF HasAnonymousColumn(row.info)
              THEN PushTable(describe_cur)
              ELSE IF describe_pc.index < Len(rows)
              THEN /\ describe_cur' = pushed
                   /\ describe_pc' = [describe_pc EXCEPT !.index = @ + 1]
                   /\ UNCHANGED <<describe_tables, describe_result>>
              ELSE PushTable(pushed)
    /\ UNCHANGED <<catalog, describe_names>>
    /\ UNCHANGED <<applierVars, shellVars, defaultVars, rpcVars>>

ViewsOk ==
    /\ describe_pc.stage = "views"
    /\ describe_queries' = Append(describe_queries, Query("views", "-"))
    /\ describe_result' = Ok([enums |-> <<>>, sequences |-> <<>>, procedures |-> <<>>,
                              tables |-> describe_tables, views |-> get_views(catalog),
                              user_defined_types |-> <<>>])
    /\ describe_pc' = [stage |-> "done", table |-> 0, index |-> 0]
    /\ UNCHANGED <<catalog, describe_names, describe_tables, describe_cur>>
    /\ UNCHANGED <<applierVars, shellVars, defaultVars, rpcVars>>

\* Mutant: the failure of a query is noted and describe goes on to query.
QueryFails_GoesOn(e) ==
    /\ describe_pc.stage \in {"table_names", "columns", "foreign_keys", "index_list",
                              "index_info", "views"}
    /\ \A k \in 1..Len(describe_queries) : describe_queries[k].kind # "failed"
    /\ describe_queries' = Append(describe_queries, Query("failed", e))
    /\ UNCHANGED <<catalog, describe_pc, describe_names, describe_tables, describe_cur,
                   describe_result>>
    /\ UNCHANGED <<applierVars, shellVars, defaultVars, rpcVars>>

\* Any of the queries fails: the DatabaseError leaves describe through `?`.
QueryFails(e) ==
    /\ describe_pc.stage \in {"table_names", "columns", "foreign_keys", "index_list",
                              "index_info", "views"}
    /\ describe_queries' = Append(describe_queries, Query("failed", e))
    /\ describe_result' = Err(DescriberErrorFrom(e))
    /\ describe_pc' = [stage |-> "done", table |-> 0, index |-> 0]
    /\ UNCHANGED <<catalog, describe_names, describe_tables, describe_cur>>
    /\ UNCHANGED <<applierVars, shellVars, defaultVars, rpcVars>>

InitDescribe ==
    /\ catalog \in CatalogPool
    /\ describe_pc = [stage |-> "idle", table |-> 0, index |-> 0]
    /\ describe_names = <<>>
    /\ describe_tables = <<>>
    /\ describe_cur = NoTable
    /\ describe_queries = <<>>
    /\ describe_result = NoResult
    /\ conn = "Quaint"
    /\ ShellAtRest
    /\ ApplierAtRest
    /\ DefaultAtRest
    /\ RpcAtRest

NextDescribe ==
    \/ DescribeCall
    \/ TableNamesOk
    \/ ColumnsOk
    \/ ForeignKeysOk
    \/ IndexListOk
    \/ IndexInfoOk
    \/ ViewsOk
    \/ \E e \in QueryErrors : QueryFails(e)

SpecDescribe == InitDescribe /\ [][NextDescribe]_vars

(***************************************************************************)
(* Properties of describe.                                                 *)
(***************************************************************************)
DescribeReturnedSchema == describe_result.tag = "Ok" /\ describe_pc.stage = "done"

ReturnedTables == describe_result.value.tables

ReturnedTableNames == { ReturnedTables[i].name : i \in 1..Len(ReturnedTables) }

\* Field `val` of the rows, in ascending order of their field `key`.
InOrderOf(rows, key, val) ==
    LET n == Len(rows)
        order == CHOOSE o \in [1..n -> 1..n] :
                    \A i, j \in 1..n : i < j => rows[o[i]][key] < rows[o[j]][key]
    IN  [k \in 1..n |-> rows[order[k]][val]]

\* The primary key of a table as the catalog declares it: the columns with
\* a key position, by that position.
CatalogPrimaryKey(name) ==
    InOrderOf(SelectSeq(catalog.tables[name].columns, LAMBDA r : r.pk > 0),
              "pk", "name")

\* The rows the catalog reports for one foreign-key constraint of a table.
CatalogConstraint(name, id) ==
    SelectSeq(catalog.tables[name].foreign_keys, LAMBDA r : r.id = id)

CatalogConstraintIds(name) ==
    { catalog.tables[name].foreign_keys[i].id :
        i \in 1..Len(catalog.tables[name].foreign_keys) }

ReportedWithoutReferencedColumns(rows) == \A i \in 1..Len(rows) : rows[i].to = Null

\* The returned foreign key is what describe owes for these catalog rows.
AnswersConstraint(fk, rows) ==
    /\ fk.columns = InOrderOf(rows, "seq", "from")
    /\ fk.referenced_table = rows[1].table
    /\ fk.referenced_columns =
          IF ReportedWithoutReferencedColumns(rows)
          THEN CatalogPrimaryKey(rows[1].table)
          ELSE InOrderOf(rows, "seq", "to")

\* C9: in every schema describe returns, each foreign key of each table
\* references a table that is in that schema's table list.
C9_ForeignKeysReferenceReturnedTables ==
    DescribeReturnedSchema =>
        \A i \in 1..Len(ReturnedTables) :
            \A j \in 1..Len(ReturnedTables[i].foreign_keys) :
                ReturnedTables[i].foreign_keys[j].referenced_table \in ReturnedTableNames

\* describe returned a schema for a catalog that reports a foreign key to a
\* table outside the schema next to one that is kept.
C9_Witness ==
    /\ DescribeReturnedSchema
    /\ \E i \in 1..Len(ReturnedTables) :
          /\ ReturnedTables[i].foreign_keys # <<>>
          /\ \E id \in CatalogConstraintIds(ReturnedTables[i].name) :
                CatalogConstraint(ReturnedTables[i].name, id)[1].table
                    \notin ReturnedTableNames

\* C10: in the schema describe returns, a foreign key the catalog reported
\* without referenced columns has the primary-key columns of the table it
\* references, in primary-key order, and a foreign key reported with
\* referenced columns has those columns; every reported foreign key into the
\* schema is returned so.
C10_ShorthandResolvesToPrimaryKey ==
    DescribeReturnedSchema =>
        \A i \in 1..Len(ReturnedTables) :
            LET name == ReturnedTables[i].name
                fks == ReturnedTables[i].foreign_keys
            IN  /\ \A j \in 1..Len(fks) :
                      \E id \in CatalogConstraintIds(name) :
                          AnswersConstraint(fks[j], CatalogConstraint(name, id))
                /\ \A id \in CatalogConstraintIds(name) :
                      CatalogConstraint(name, id)[1].table \in ReturnedTableNames =>
                          \E j \in 1..Len(fks) :
                              AnswersConstraint(fks[j], CatalogConstraint(name, id))

\* describe returned a schema where a foreign key reported without referenced
\* columns points to a table with a two-column primary key, next to a
\* foreign key reported with its referenced column.
C10_Witness ==
    /\ DescribeReturnedSchema
    /\ \E i \in 1..Len(ReturnedTables) :
          LET name == ReturnedTables[i].name
              fks == ReturnedTables[i].foreign_keys
          IN  /\ \E j \in 1..Len(fks), id \in CatalogConstraintIds(name) :
                    /\ ReportedWithoutReferencedColumns(CatalogConstraint(name, id))
                    /\ AnswersConstraint(fks[j], CatalogConstraint(name, id))
                    /\ Len(fks[j].referenced_columns) = 2
              /\ \E j \in 1..Len(fks), id \in CatalogConstraintIds(name) :
                    /\ ~ReportedWithoutReferencedColumns(CatalogConstraint(name, id))
                    /\ AnswersConstraint(fks[j], CatalogConstraint(name, id))

\* get_columns has returned for the table get_table is assembling.
ColumnsDescribed == describe_pc.stage \in {"foreign_keys", "index_list", "index_info"}

\* The rows of PRAGMA table_info of that table that are flagged as members
\* of the primary key.
KeyRows == SelectSeq(catalog.tables[describe_cur.name].columns, LAMBDA r : r.pk > 0)

\* C14: for a table whose catalog rows flag several columns as primary-key
\* members, get_columns returns a primary key whose columns are those
\* columns by ascending pk number, whatever the order of the rows.
C14_CompositeKeyInKeyOrder ==
    (ColumnsDescribed /\ Len(KeyRows) >= 2) =>
        /\ describe_cur.primary_key.is_some
        /\ describe_cur.primary_key.columns = InOrderOf(KeyRows, "pk", "name")

\* get_columns returned a two-column key whose first column is declared
\* second.
C14_Witness ==
    /\ ColumnsDescribed
    /\ Len(KeyRows) = 2
    /\ KeyRows[1].pk = 2
    /\ describe_cur.primary_key.columns = <<KeyRows[2].name, KeyRows[1].name>>

\* The column of the assembled table with this name.
DescribedColumn(name) ==
    describe_cur.columns[CHOOSE i \in 1..Len(describe_cur.columns) :
                            describe_cur.columns[i].name = name]

SingleKeyMarkedAutoIncrement ==
    /\ describe_cur.primary_key.is_some
    /\ describe_cur.primary_key.columns = <<KeyRows[1].name>>
    /\ DescribedColumn(KeyRows[1].name).auto_increment

\* The type names get_column_type puts in the Int family.
IntFamilyTypeNames == {"int", "INT", "integer", "INTEGER"}

\* C15 as stated: for a table whose primary key is one column of an integer
\* type, get_columns marks the column auto_increment and returns a primary
\* key listing exactly that column.
C15_IntegerTypedKeyIsAutoIncrement ==
    (ColumnsDescribed /\ Len(KeyRows) = 1 /\ KeyRows[1].type \in IntFamilyTypeNames) =>
        SingleKeyMarkedAutoIncrement

\* C15, amended: the same for a single key column whose declared type is
\* INTEGER, in any letter case.
C15_IntegerKeyIsAutoIncrement ==
    (ColumnsDescribed /\ Len(KeyRows) = 1 /\ KeyRows[1].type \in {"integer", "INTEGER"}) =>
        SingleKeyMarkedAutoIncrement

\* get_columns returned for a table whose only key column is declared
\* INTEGER in capitals, next to a column outside the key.
C15_Witness ==
    /\ ColumnsDescribed
    /\ Len(KeyRows) = 1
    /\ KeyRows[1].type = "INTEGER"
    /\ Len(describe_cur.columns) = 2
    /\ SingleKeyMarkedAutoIncrement

\* The rows PRAGMA index_list answers for a table.
CatalogIndexes(name) == catalog.tables[name].indexes

AllColumnsNamed(row) == \A i \in 1..Len(row.info) : row.info[i].name # Null

\* The index is the one the catalog row describes, each column at the place
\* its seqno gives.
AnswersIndexRow(index, row) ==
    /\ index.name = row.name
    /\ index.tpe = (IF row.unique THEN "Unique" ELSE "Normal")
    /\ Len(index.columns) = Len(row.info)
    /\ \A i \in 1..Len(row.info) : index.columns[row.info[i].seqno + 1] = row.info[i].name

\* What C16 asks of the indices returned for one described table.
IndicesAsClaimed(table) ==
    LET rows == CatalogIndexes(table.name)
    IN  /\ \A i \in 1..Len(rows) :
              (rows[i].origin = "pk" \/ rows[i].partial) =>
                  \A k \in 1..Len(table.indices) : table.indices[k].name # rows[i].name
        /\ \A i \in 1..Len(rows) :
              (rows[i].origin # "pk" /\ ~rows[i].partial /\ AllColumnsNamed(rows[i])) =>
                  \E k \in 1..Len(table.indices) : AnswersIndexRow(table.indices[k], rows[i])

\* C16: get_indices returns no primary-key-backing and no partial index, and
\* returns every other index whose columns are all named, each column at the
\* position of its sequence number, whatever the order of the catalog rows.
C16_IndicesFilteredAndPlaced ==
    \A t \in 1..Len(describe_tables) : IndicesAsClaimed(describe_tables[t])

\* The same on tables none of whose indexes has an anonymous column.
IndicesFilteredAndPlacedWithoutExpressions ==
    \A t \in 1..Len(describe_tables) :
        (\A i \in 1..Len(CatalogIndexes(describe_tables[t].name)) :
            AllColumnsNamed(CatalogIndexes(describe_tables[t].name)[i]))
        => IndicesAsClaimed(describe_tables[t])

\* A table was described that has a key-backing, a partial and a two-column
\* index whose rows come in reverse order of seqno.
IndicesWitness ==
    \E t \in 1..Len(describe_tables) :
        /\ Len(CatalogIndexes(describe_tables[t].name)) = 3
        /\ Len(describe_tables[t].indices) = 1
        /\ describe_tables[t].indices[1].columns = <<"name", "id">>

\* describe has purged the table list: it is about to query the views, has
\* returned the schema, or has aborted in the pass after the purge.
Purged ==
    \/ describe_pc.stage = "views"
    \/ describe_pc.stage = "done" /\ describe_result.tag \in {"Ok", "panic"}

PurgedTableNames == { describe_tables[i].name : i \in 1..Len(describe_tables) }

\* The constraints the catalog reports for a table whose referenced table is
\* in the table list.
ConstraintsIntoList(name) ==
    { id \in CatalogConstraintIds(name) :
        CatalogConstraint(name, id)[1].table \in PurgedTableNames }

\* C17: after the purge a table holds exactly the foreign keys whose
\* referenced table is in the table list, and purging that list once more
\* changes nothing.
C17_PurgeKeepsExactlyResolvableKeys ==
    Purged =>
        /\ \A t \in 1..Len(describe_tables) :
              LET name == describe_tables[t].name
                  fks == describe_tables[t].foreign_keys
              IN  /\ Len(fks) = Cardinality(ConstraintsIntoList(name))
                  /\ \A id \in ConstraintsIntoList(name) :
                        \E j \in 1..Len(fks) :
                            /\ fks[j].columns =
                                  InOrderOf(CatalogConstraint(name, id), "seq", "from")
                            /\ fks[j].referenced_table = CatalogConstraint(name, id)[1].table
        /\ purge_dangling_foreign_keys(describe_tables) = describe_tables

\* The purge has run on a table that had a foreign key to a table outside
\* the list and two foreign keys into it.
C17_Witness ==
    /\ describe_pc.stage = "views"
    /\ \E t \in 1..Len(describe_tables) :
          /\ Len(describe_tables[t].foreign_keys) = 2
          /\ Cardinality(CatalogConstraintIds(describe_tables[t].name)) = 3

\* The rows of an index's column list that come before its first row
\* without a column name.
PrefixBeforeAnonymous(info) ==
    LET first == CHOOSE i \in 1..Len(info) :
                    /\ info[i].name = Null
                    /\ \A j \in 1..(i - 1) : info[j].name # Null
    IN  SubSeq(info, 1, first - 1)

IsExpressionIndex(row) == row.origin # "pk" /\ ~row.partial /\ ~AllColumnsNamed(row)

\* C22: when the column list of an index has an anonymous column,
\* get_indices still returns that index, holding the named columns collected
\* before the anonymous one.
C22_ExpressionIndexKeptWithPrefix ==
    \A t \in 1..Len(describe_tables) :
        LET rows == CatalogIndexes(describe_tables[t].name)
            indices == describe_tables[t].indices
        IN  \A i \in 1..Len(rows) :
                IsExpressionIndex(rows[i]) =>
                    \E k \in 1..Len(indices) :
                        AnswersIndexRow(indices[k],
                            [rows[i] EXCEPT !.info = PrefixBeforeAnonymous(@)])

\* What get_indices does return: the filtered indexes listed before the
\* first expression index, and nothing else.
IndicesEndAtFirstExpressionIndex ==
    \A t \in 1..Len(describe_tables) :
        LET rows == FilteredIndexRows(CatalogIndexes(describe_tables[t].name))
            indices == describe_tables[t].indices
            stop == { i \in 1..Len(rows) : ~AllColumnsNamed(rows[i]) }
            kept == IF stop = {} THEN Len(rows) ELSE NthSmallest(stop, 1) - 1
        IN  /\ Len(indices) = kept
            /\ \A k \in 1..kept : AnswersIndexRow(indices[k], rows[k])

\* A table was described whose expression index comes between two indexes
\* on named columns: only the first of the three was returned.
ExpressionIndexWitness ==
    \E t \in 1..Len(describe_tables) :
        LET rows == CatalogIndexes(describe_tables[t].name)
        IN  /\ Len(rows) = 3
            /\ IsExpressionIndex(rows[2])
            /\ Len(describe_tables[t].indices) = 1
            /\ describe_tables[t].indices[1].name = rows[1].name

\* C25: an index with an anonymous column does not change which other
\* indexes get_indices returns: on a table that has one, every index that is
\* neither key-backing nor partial and has only named columns is returned,
\* before or after the expression index in the catalog's list.
C25_ExpressionIndexLeavesOthers ==
    \A t \in 1..Len(describe_tables) :
        LET rows == CatalogIndexes(describe_tables[t].name)
            indices == describe_tables[t].indices
        IN  (\E e \in 1..Len(rows) : IsExpressionIndex(rows[e])) =>
                \A i \in 1..Len(rows) :
                    (rows[i].origin # "pk" /\ ~rows[i].partial /\ AllColumnsNamed(rows[i])) =>
                        \E k \in 1..Len(indices) : indices[k].name = rows[i].name

\* get_foreign_keys has returned for the table get_table is assembling.
ForeignKeysDescribed == describe_pc.stage \in {"index_list", "index_info"}

\* The non-null values of field `val` of the rows, in ascending order of
\* their field `key`.
NonNullInOrderOf(rows, key, val) ==
    InOrderOf(SelectSeq(rows, LAMBDA r : r[val] # Null), key, val)

\* C23: get_foreign_keys returns exactly one ForeignKey per distinct
\* constraint id among the catalog rows of the table; its columns are the
\* `from` values of the rows with that id by sequence number and its
\* referenced columns their non-null `to` values by sequence number,
\* whatever the order of the rows.
C23_ForeignKeysGroupedById ==
    ForeignKeysDescribed =>
        LET name == describe_cur.name
            fks == describe_cur.foreign_keys
            ids == CatalogConstraintIds(name)
        IN  /\ Len(fks) = Cardinality(ids)
            /\ \E of \in [1..Len(fks) -> ids] :
                  /\ \A j, k \in 1..Len(fks) : j # k => of[j] # of[k]
                  /\ \A j \in 1..Len(fks) :
                        LET rows == CatalogConstraint(name, of[j])
                        IN  /\ fks[j].columns = InOrderOf(rows, "seq", "from")
                            /\ fks[j].referenced_columns =
                                  NonNullInOrderOf(rows, "seq", "to")
                            /\ fks[j].referenced_table = rows[1].table

\* get_foreign_keys returned two foreign keys from three rows, the rows of
\* the two-column one coming in descending sequence number around the row
\* of the other.
C23_Witness ==
    /\ ForeignKeysDescribed
    /\ Len(catalog.tables[describe_cur.name].foreign_keys) = 3
    /\ catalog.tables[describe_cur.name].foreign_keys[1].seq = 1
    /\ Len(describe_cur.foreign_keys) = 2
    /\ \E j \in 1..2 : describe_cur.foreign_keys[j].referenced_columns = <<"id", "name">>

\* C28: the pass of describe that resolves foreign keys without referenced
\* columns never aborts: after the purge every such foreign key refers to a
\* table of the list, and that table has a primary key.
C28_ResolvePassNeverAborts ==
    /\ describe_result.tag # "panic"
    /\ Purged =>
          \A t \in 1..Len(describe_tables) :
              \A j \in 1..Len(describe_tables[t].foreign_keys) :
                  LET fk == describe_tables[t].foreign_keys[j]
                      found == FindTable(describe_tables, fk.referenced_table)
                  IN  /\ found.is_some
                      /\ fk.referenced_columns = <<>> => found.table.primary_key.is_some

\* The half the purge does give: after it, every foreign key refers to a
\* table found in the list.
PurgedForeignKeysFindTheirTable ==
    Purged =>
        \A t \in 1..Len(describe_tables) :
            \A j \in 1..Len(describe_tables[t].foreign_keys) :
                FindTable(describe_tables,
                          describe_tables[t].foreign_keys[j].referenced_table).is_some

\* describe aborted in the resolve pass: a foreign key without referenced
\* columns refers to a listed table that has no primary key.
ResolvePassAborted ==
    /\ describe_result.tag = "panic"
    /\ \E t \in 1..Len(describe_tables) :
          \E j \in 1..Len(describe_tables[t].foreign_keys) :
              LET fk == describe_tables[t].foreign_keys[j]
                  found == FindTable(describe_tables, fk.referenced_table)
              IN  /\ fk.referenced_columns = <<>>
                  /\ found.is_some
                  /\ ~found.table.primary_key.is_some

(***************************************************************************)
(* The default value of a String-family column (get_columns, lines         *)
(* 193-243) and unquote_sqlite_string_default.                             *)
(***************************************************************************)
MaxDefaultLen == 4

SingleQuote == "'"
DoubleQuote == "\""

\* The characters default texts are drawn from.
DefaultChars == {SingleQuote, DoubleQuote, "a", NEWLINE}

\* The default text 'it''s', with its quotes.
ItsQuoted == <<"'", "i", "t", "'", "'", "s", "'">>

\* The dflt_value cells of the model: NULL, every text up to MaxDefaultLen,
\* the text 'it''s' and the word null in three spellings.
DefaultCellPool ==
    { [is_some |-> FALSE, text |-> <<>>] }
    \cup { [is_some |-> TRUE, text |-> t] :
             t \in SeqsUpTo(DefaultChars, MaxDefaultLen)
                   \cup { ItsQuoted, <<"n", "u", "l", "l">>, <<"N", "U", "L", "L">>,
                          <<"N", "u", "l", "l">> } }

\* String::to_lowercase, on the letters of the model.
LowerChar(c) ==
    CASE c = "N" -> "n"
      [] c = "U" -> "u"
      [] c = "L" -> "l"
      [] OTHER -> c

TextToLowercase(text) == [i \in 1..Len(text) |-> LowerChar(text[i])]

\* Where ^ and $ of a (?m) regex match: at the start of a line, and at the
\* end of one.
AtLineStart(text, p) == p = 1 \/ text[p - 1] = NEWLINE
AtLineEnd(text, e) == e = Len(text) \/ text[e + 1] = NEWLINE

\* The ends of the matches of ^'(.*)'$|^"(.*)"$ that start at p; with (?s)
\* the dot runs over newlines.
QuotedMatchEnds(text, p) ==
    { e \in (p + 1)..Len(text) :
        /\ AtLineStart(text, p)
        /\ text[p] \in {SingleQuote, DoubleQuote}
        /\ text[e] = text[p]
        /\ AtLineEnd(text, e) }

\* SQLITE_STRING_DEFAULT_RE.replace(s, "$1$2"): the leftmost match, its
\* greedy end, replaced by what the quotes enclose.
StripQuoting(text) ==
    LET starts == { p \in 1..Len(text) : QuotedMatchEnds(text, p) # {} }
    IN  IF starts = {} THEN text
        ELSE LET p == NthSmallest(starts, 1)
                 ends == QuotedMatchEnds(text, p)
                 e == NthSmallest(ends, Cardinality(ends))
             IN  SubSeq(text, 1, p - 1) \o SubSeq(text, p + 1, e - 1)
                 \o SubSeq(text, e + 1, Len(text))

RECURSIVE UnescapeQuotes(_)
\* SQLITE_ESCAPED_CHARACTER_RE.replace_all(s, "'"): each '' from the left,
\* without overlap, becomes '.
UnescapeQuotes(text) ==
    IF Len(text) < 2 THEN text
    ELSE IF text[1] = SingleQuote /\ text[2] = SingleQuote
    THEN <<SingleQuote>> \o UnescapeQuotes(SubSeq(text, 3, Len(text)))
    ELSE <<text[1]>> \o UnescapeQuotes(Tail(text))

unquote_sqlite_string_default(text) == UnescapeQuotes(StripQuoting(text))

\* The `default` of a column of the String family.
StringColumnDefault(cell) ==
    IF ~cell.is_some THEN [tag |-> "None", value |-> <<>>]
    ELSE IF TextToLowercase(cell.text) = <<"n", "u", "l", "l">>
    THEN [tag |-> "None", value |-> <<>>]
    ELSE [tag |-> "Some", value |-> unquote_sqlite_string_default(cell.text)]

\* get_columns maps the row of a String-family column.
ColumnDefault ==
    /\ default_value.tag = "none"
    /\ default_value' = StringColumnDefault(default_cell)
    /\ UNCHANGED default_cell
    /\ UNCHANGED <<applierVars, shellVars, describeVars, rpcVars>>

InitDefault ==
    /\ default_cell \in DefaultCellPool
    /\ default_value = [tag |-> "none", value |-> "-"]
    /\ conn = "Quaint"
    /\ ShellAtRest
    /\ ApplierAtRest
    /\ DescriberAtRest
    /\ RpcAtRest

NextDefault == ColumnDefault

SpecDefault == InitDefault /\ [][NextDefault]_vars

(***************************************************************************)
(* Properties of the default value.                                        *)
(***************************************************************************)
\* The text is enclosed in one pair of single or of double quotes.
Enclosed(text) ==
    /\ Len(text) >= 2
    /\ text[1] \in {SingleQuote, DoubleQuote}
    /\ text[Len(text)] = text[1]

WithoutEnclosingQuotes(text) ==
    IF Enclosed(text) THEN SubSeq(text, 2, Len(text) - 1) ELSE text

\* The place of a single quote within its run of single quotes.
PlaceInRun(text, i) ==
    i - (IF \E j \in 1..(i - 1) : text[j] # SingleQuote
         THEN CHOOSE j \in 1..(i - 1) :
                 /\ text[j] # SingleQuote
                 /\ \A k \in (j + 1)..(i - 1) : text[k] = SingleQuote
         ELSE 0)

\* Every doubled single quote replaced by one: the second quote of each
\* pair of a run is left out.
DoubledQuotesReplaced(text) ==
    LET kept == { i \in 1..Len(text) :
                    text[i] # SingleQuote \/ PlaceInRun(text, i) % 2 = 1 }
    IN  [k \in 1..Cardinality(kept) |-> text[NthSmallest(kept, k)]]

DefaultAsClaimed(text) == DoubledQuotesReplaced(WithoutEnclosingQuotes(text))

\* C18: the default value of a String-family column is the catalog's default
\* text with one enclosing pair of single or double quotes removed and every
\* doubled single quote replaced by one; the text 'it''s' yields it's.
C18_StringDefaultUnquoted ==
    default_value.tag = "Some" =>
        /\ default_value.value = DefaultAsClaimed(default_cell.text)
        /\ default_cell.text = ItsQuoted =>
              default_value.value = <<"i", "t", "'", "s">>

OnOneLine(text) == \A i \in 1..Len(text) : text[i] # NEWLINE

\* The same for default texts that are on one line or enclosed in quotes as
\* a whole.
StringDefaultUnquotedOnOneLineOrEnclosed ==
    (default_value.tag = "Some"
        /\ (OnOneLine(default_cell.text) \/ Enclosed(default_cell.text))) =>
        /\ default_value.value = DefaultAsClaimed(default_cell.text)
        /\ default_cell.text = ItsQuoted =>
              default_value.value = <<"i", "t", "'", "s">>

\* The default of the text 'it''s' has been computed.
StringDefaultWitness ==
    /\ default_cell.text = ItsQuoted
    /\ default_value = [tag |-> "Some", value |-> <<"i", "t", "'", "s">>]

\* C19: when a catalog query of describe fails, describe returns a
\* DescriberError that wraps that DatabaseError and no schema, and the
\* failed query is the last one it issued.
C19_QueryFailurePropagates ==
    \A k \in 1..Len(describe_queries) :
        describe_queries[k].kind = "failed" =>
            /\ k = Len(describe_queries)
            /\ describe_pc.stage = "done"
            /\ describe_result.tag = "Err"
            /\ describe_result.value.kind = "IoShellError"
            /\ describe_result.value.message = describe_queries[k].arg

\* The query that follows a table's index list failed after a table had
\* been described in full.
C19_Witness ==
    /\ describe_result.tag = "Err"
    /\ describe_tables # <<>>
    /\ Len(describe_queries) >= 2
    /\ describe_queries[Len(describe_queries)].kind = "failed"
    /\ describe_queries[Len(describe_queries) - 1].kind = "index_list"

(***************************************************************************)
(* JSON-RPC over standard IO (json-rpc-stdio): Client::call and the loop   *)
(* of run_with_io.  What a line parses to is decided by serde and          *)
(* jsonrpc_core; the loop is modelled for each outcome of the parse.       *)
(***************************************************************************)
\* mpsc::channel(30)
RpcChannelBuffer == 30

\* The lines the peer may write: a request, a response to any id (one more
\* than was ever issued included), or text that parses to no Message.
LinePool ==
    { [kind |-> "request", id |-> -1, output |-> "-"],
      [kind |-> "garbage", id |-> -1, output |-> "-"] }
    \cup { [kind |-> "response", id |-> i, output |-> o] :
             i \in 0..MaxRpcCalls, o \in {"Success", "Failure"} }

\* run_with_io is left, by `?` or by a panic: the adapter's receiver and the
\* in_flight table are dropped, and with them the senders they hold.
LoopEnds(pc, value) ==
    /\ rpc_loop' = [pc |-> pc, value |-> value]
    /\ rpc_in_flight' = {}
    /\ rpc_channel' = <<>>

\* Client::call up to its first await: the id is drawn and the parameters
\* are converted; parameters that are no array and no object end the call.
ClientCallStart(c, params_ok) ==
    /\ rpc_clients
    /\ rpc_calls[c].pc \notin {"send", "awaiting"}
    /\ rpc_counter < MaxRpcCalls
    /\ rpc_counter' = rpc_counter + 1
    /\ rpc_calls' = [rpc_calls EXCEPT ![c] =
                        [pc |-> IF params_ok THEN "send" ELSE "invalid_request",
                         id |-> rpc_counter, responses |-> <<>>]]
    /\ UNCHANGED <<rpc_loop, rpc_stdin, rpc_lines, rpc_in_flight, rpc_channel,
                   rpc_clients, rpc_output>>
    /\ UNCHANGED <<applierVars, shellVars, describeVars, defaultVars>>

\* self.request_sender.send((request, response_sender)).await.unwrap()
ClientCallSend(c) ==
    /\ rpc_calls[c].pc = "send"
    /\ IF rpc_loop.pc # "running"
       THEN /\ rpc_calls' = [rpc_calls EXCEPT ![c].pc = "panicked"]
            /\ UNCHANGED rpc_channel
       ELSE /\ Len(rpc_channel) < RpcChannelBuffer
            /\ rpc_channel' = Append(rpc_channel,
                                  [id |-> rpc_calls[c].id, chan |-> rpc_calls[c].id])
            /\ rpc_calls' = [rpc_calls EXCEPT ![c].pc = "awaiting"]
    /\ UNCHANGED <<rpc_loop, rpc_stdin, rpc_lines, rpc_in_flight, rpc_clients,
                   rpc_counter, rpc_output>>
    /\ UNCHANGED <<applierVars, shellVars, describeVars, defaultVars>>

\* The future of Client::call is dropped at one of its await points, and
\* its response_receiver with it.
ClientCallDropped(c) ==
    /\ rpc_calls[c].pc \in {"send", "awaiting"}
    /\ rpc_calls' = [rpc_calls EXCEPT ![c].pc = "dropped"]
    /\ UNCHANGED <<rpc_loop, rpc_stdin, rpc_lines, rpc_in_flight, rpc_channel,
                   rpc_clients, rpc_counter, rpc_output>>
    /\ UNCHANGED <<applierVars, shellVars, describeVars, defaultVars>>

\* response_receiver.await.unwrap() when the call's response_sender was
\* dropped unused: the unwrap panics.
ClientCallSenderGone(c) ==
    /\ rpc_calls[c].pc = "awaiting"
    /\ \A k \in 1..Len(rpc_channel) : rpc_channel[k].chan # rpc_calls[c].id
    /\ \A e \in rpc_in_flight : e.chan # rpc_calls[c].id
    /\ rpc_calls' = [rpc_calls EXCEPT ![c].pc = "panicked"]
    /\ UNCHANGED <<rpc_loop, rpc_stdin, rpc_lines, rpc_in_flight, rpc_channel,
                   rpc_clients, rpc_counter, rpc_output>>
    /\ UNCHANGED <<applierVars, shellVars, describeVars, defaultVars>>

\* The last Client handle is dropped (run keeps its own alive for good; the
\* caller of run_with_client owns it).
ClientDrop ==
    /\ rpc_clients
    /\ \A c \in RpcCallers : rpc_calls[c].pc \notin {"send", "awaiting"}
    /\ rpc_clients' = FALSE
    /\ UNCHANGED <<rpc_loop, rpc_stdin, rpc_lines, rpc_in_flight, rpc_channel,
                   rpc_calls, rpc_counter, rpc_output>>
    /\ UNCHANGED <<applierVars, shellVars, describeVars, defaultVars>>

\* HashMap::insert: the entry under the key is replaced.
InFlightInsert(table, msg) == { e \in table : e.id # msg.id } \cup {msg}

\* The select! arm of request_receiver.recv() with Some(request):
\* handle_next_client_request.
LoopNextRequest(write_ok) ==
    /\ rpc_loop.pc = "running"
    /\ rpc_channel # <<>>
    /\ IF write_ok
       THEN /\ rpc_in_flight' = InFlightInsert(rpc_in_flight, Head(rpc_channel))
            /\ rpc_channel' = Tail(rpc_channel)
            /\ rpc_output' = [kind |-> "request", id |-> Head(rpc_channel).id]
            /\ UNCHANGED rpc_loop
       ELSE /\ LoopEnds("returned", "Err(io)")
            /\ UNCHANGED rpc_output
    /\ UNCHANGED <<rpc_stdin, rpc_lines, rpc_clients, rpc_calls, rpc_counter>>
    /\ UNCHANGED <<applierVars, shellVars, describeVars, defaultVars>>

\* The same arm with None, every sender being gone: next_request.unwrap()
\* panics.
LoopRequestNone ==
    /\ rpc_loop.pc = "running"
    /\ rpc_channel = <<>>
    /\ ~rpc_clients
    /\ LoopEnds("panicked", "-")
    /\ UNCHANGED <<rpc_stdin, rpc_lines, rpc_clients, rpc_calls, rpc_counter,
                   rpc_output>>
    /\ UNCHANGED <<applierVars, shellVars, describeVars, defaultVars>>

\* Mutant: the entry taken from the table is its oldest one.
InFlightRemove_Oldest(table, id) ==
    IF table = {} THEN {}
    ELSE { CHOOSE e \in table : \A f \in table : e.id <= f.id }

\* in_flight.remove(response.id()): the entry under that key, if any.
InFlightRemove(table, id) == { e \in table : e.id = id }

\* The select! arm of input_lines.next_line() with a line:
\* handle_stdin_next_line from line 142 on.
StdinNextLine(line, write_ok) ==
    /\ rpc_loop.pc = "running"
    /\ rpc_stdin = "open"
    /\ rpc_lines < MaxLines
    /\ rpc_lines' = rpc_lines + 1
    /\ LET hit == InFlightRemove(rpc_in_flight, line.id)
           chan == (CHOOSE e \in hit : TRUE).chan
           rest == rpc_in_flight \ hit
       IN  CASE line.kind = "garbage" ->
                   /\ LoopEnds("returned", "Err(parse)")
                   /\ UNCHANGED <<rpc_calls, rpc_output>>
             [] line.kind = "request" ->
                   /\ IF write_ok
                      THEN /\ rpc_output' = [kind |-> "response", id |-> -1]
                           /\ UNCHANGED <<rpc_loop, rpc_in_flight, rpc_channel>>
                      ELSE /\ LoopEnds("returned", "Err(io)")
                           /\ UNCHANGED rpc_output
                   /\ UNCHANGED rpc_calls
             [] line.kind = "response" /\ hit = {} ->
                   UNCHANGED <<rpc_loop, rpc_in_flight, rpc_channel, rpc_calls,
                               rpc_output>>
             [] line.kind = "response" /\ hit # {} ->
                   IF \E c \in RpcCallers :
                          rpc_calls[c].pc = "awaiting" /\ rpc_calls[c].id = chan
                   THEN /\ rpc_calls' =
                              [c \in RpcCallers |->
                                  IF rpc_calls[c].pc = "awaiting" /\ rpc_calls[c].id = chan
                                  THEN [rpc_calls[c] EXCEPT
                                          !.pc = "returned",
                                          !.responses = Append(@, [id |-> line.id,
                                                                   output |-> line.output])]
                                  ELSE rpc_calls[c]]
                        /\ rpc_in_flight' = rest
                        /\ UNCHANGED <<rpc_loop, rpc_channel, rpc_output>>
                   ELSE \* chan.send(response).expect("Response channel broken")
                        /\ LoopEnds("panicked", "-")
                        /\ UNCHANGED <<rpc_calls, rpc_output>>
    /\ UNCHANGED <<rpc_stdin, rpc_clients, rpc_counter>>
    /\ UNCHANGED <<applierVars, shellVars, describeVars, defaultVars>>

\* next_line() is Ok(None), the end of the input: handle_stdin_next_line
\* returns Ok(()) at line 139 and the loop goes round again.
StdinEof ==
    /\ rpc_loop.pc = "running"
    /\ rpc_stdin \in {"open", "eof"}
    /\ rpc_stdin' = "eof"
    /\ UNCHANGED <<rpc_loop, rpc_lines, rpc_in_flight, rpc_channel, rpc_clients,
                   rpc_calls, rpc_counter, rpc_output>>
    /\ UNCHANGED <<applierVars, shellVars, describeVars, defaultVars>>

\* next_line() is Err: `next_line?` returns the error and `?` at line 108
\* returns it from run_with_io.
StdinError ==
    /\ rpc_loop.pc = "running"
    /\ rpc_stdin = "open"
    /\ rpc_stdin' = "error"
    /\ LoopEnds("returned", "Err(io)")
    /\ UNCHANGED <<rpc_lines, rpc_clients, rpc_calls, rpc_counter, rpc_output>>
    /\ UNCHANGED <<applierVars, shellVars, describeVars, defaultVars>>

InitRpc ==
    /\ RpcAtRest
    /\ conn = "Quaint"
    /\ ShellAtRest
    /\ ApplierAtRest
    /\ DescriberAtRest
    /\ DefaultAtRest

NextRpc ==
    \/ \E c \in RpcCallers, params_ok \in BOOLEAN : ClientCallStart(c, params_ok)
    \/ \E c \in RpcCallers : ClientCallSend(c)
    \/ \E c \in RpcCallers : ClientCallDropped(c)
    \/ \E c \in RpcCallers : ClientCallSenderGone(c)
    \/ ClientDrop
    \/ \E write_ok \in BOOLEAN : LoopNextRequest(write_ok)
    \/ LoopRequestNone
    \/ \E line \in LinePool, write_ok \in BOOLEAN : StdinNextLine(line, write_ok)
    \/ StdinEof
    \/ StdinError

SpecRpc == InitRpc /\ [][NextRpc]_vars

(***************************************************************************)
(* Properties of the JSON-RPC loop.                                        *)
(***************************************************************************)
\* C21: the loop started by run or run_with_client returns once its input
\* is closed (end of input) or an IO error happens; it does not keep running
\* after the end of the input.
C21_LoopReturnsAtEndOfInput ==
    rpc_stdin # "open" => rpc_loop.pc = "returned"

\* The half the code keeps: an error reading the input ends the loop with
\* that error.
LoopReturnsOnInputError ==
    rpc_stdin = "error" => rpc_loop = [pc |-> "returned", value |-> "Err(io)"]

\* After the end of its input the loop still runs and has taken a client's
\* request.
LoopRunsAfterEndOfInput ==
    /\ rpc_stdin = "eof"
    /\ rpc_loop.pc = "running"
    /\ rpc_in_flight # {}

\* What the claim asks of the step in which the loop reads this response.
RoutedById(line) ==
    LET addressed(c) == rpc_calls[c].pc = "awaiting" /\ rpc_calls[c].id = line.id
    IN  IF \E e \in rpc_in_flight : e.id = line.id
        THEN IF rpc_loop'.pc = "running"
             THEN /\ rpc_in_flight' = { e \in rpc_in_flight : e.id # line.id }
                  /\ \E c \in RpcCallers : addressed(c)
                  /\ \A c \in RpcCallers :
                        IF addressed(c)
                        THEN /\ rpc_calls'[c].pc = "returned"
                             /\ rpc_calls'[c].responses =
                                   <<[id |-> line.id, output |-> line.output]>>
                        ELSE rpc_calls'[c] = rpc_calls[c]
             ELSE \* the call was dropped: "Response channel broken"
                  /\ rpc_loop'.pc = "panicked"
                  /\ ~\E c \in RpcCallers : addressed(c)
                  /\ UNCHANGED rpc_calls
        ELSE UNCHANGED <<rpc_in_flight, rpc_calls, rpc_loop>>

ResponseLines == { line \in LinePool : line.kind = "response" }

====
